---- MODULE Spec2Model ----
(***************************************************************************)
(* A model of the goni kernel: the class-weighted schedulers (goni-sched), *)
(* the orchestrator's pending-query rendezvous (goni-core), the            *)
(* hash-chained receipt log (goni-receipts), the context selector          *)
(* (goni-context), the policy engine (goni-policy) and the two receipt     *)
(* writers that sit on it (goni-tools, goni-egress-gate), and the pure     *)
(* functions of goni-context, goni-embed, goni-schema and goni-agent.      *)
(*                                                                         *)
(* Specifications:                                                         *)
(*   SpecInMemory  InMemoryScheduler driven by submit / next calls         *)
(*   SpecQoS       QoSScheduler driven by submit / next calls              *)
(*   Spec          GoniKernel over either scheduler                        *)
(*   SpecLog       one ReceiptLog handle with concurrent appenders         *)
(*   SpecSched     either scheduler driven by submit / next calls          *)
(*   SpecSelect    FacilityLocationSelector.select calls (goni-context)    *)
(*   SpecPolicy    PolicyEngine checks against a budget ledger             *)
(*   SpecGate      ToolExecutor.execute and the egress gate's fetch        *)
(*   SpecReopen    a ReceiptLog that is opened again on its file           *)
(*   SpecChunks    record_batch_to_candidate_chunks on small batches       *)
(*   SpecEmbed     embed on short texts                                    *)
(*   SpecSolve     one solve_prompt call, step by step                     *)
(*   SpecSchema    the TXT check on the tables of goni-schema              *)
(*   SpecManifest  AgentManifest::parse_yaml on small documents            *)
(*   SpecLocks     GoniKernel with the guards of its two mutexes           *)
(*   SpecHandoff   either scheduler with a record of the calls made        *)
(*   SpecFair      Spec with every started task running on                 *)
(*   SpecBudget    one BudgetLedger with a record of its decisions         *)
(*   SpecTorn      SpecLog's appenders with writes that fail part-way      *)
(*   SpecRemove    a ReceiptLog from whose file lines are removed          *)
(***************************************************************************)
EXTENDS Integers, Sequences, FiniteSets, TLC

VARIABLES
    \* ---- scheduler (goni-sched) ----
    kind,        \* which implementation sits behind `dyn Scheduler`
    queues,      \* Inner.queues / QosInner.queues: [0..2 -> Seq(batch)]
    max_wip,     \* QosInner.max_wip: [0..2 -> Nat]
    issued,      \* per class, how many batch ids have been generated
    sched_op,    \* the scheduler call made by the last step of a scheduler spec
    sched_ret    \* what that call returned

VARIABLES
    \* ---- orchestrator (goni-core) ----
    pending,     \* GoniKernel.pending: [batch id -> Option<PendingRequest>]
    chan,        \* per batch id, the results sent on its oneshot channel
    solved,      \* per batch id, the (prompt, class) of each solve_prompt call
    rx_dropped,  \* the batch ids whose oneshot receiver has been dropped
    direct,      \* batches put on the scheduler by other holders of the Arc
    pc,          \* per task, where it stands in the call it is making
    call,        \* per task, the public method it called
    local        \* per task, the locals of that call

VARIABLES
    \* ---- receipt log (goni-receipts) ----
    file_exists, \* whether the log path exists
    file,        \* the lines of the log file, in order
    last_hash,   \* ReceiptLog.last_hash: Option<String>, the chain tail
    lock,        \* the holder of the last_hash mutex, 0 when it is free
    apc,         \* per appender, where it stands in append
    areceipt,    \* per appender, the receipt it is appending
    started,     \* append calls begun so far
    tampered,    \* whether a line of the file was edited in place
    verify_ret,  \* what the last verify_log call returned
    opened_at,   \* how many lines the file held when the handle was opened
    torn         \* whether the file ends inside a line, with no newline after it

schedVars == <<kind, queues, max_wip, issued, sched_op, sched_ret>>
kernelVars == <<pending, chan, rx_dropped, solved, direct, pc, call, local>>

logVars == <<file_exists, file, last_hash, lock, apc, areceipt, started, tampered, verify_ret,
            opened_at, torn>>

VARIABLES
    \* ---- context selector (goni-context) ----
    gamma,       \* FacilityLocationSelector.gamma
    pool,        \* the candidate chunks the callers hold
    sel_pc,      \* where the select call in progress stands
    sel_args,    \* the arguments of the last select call
    sel_local,   \* the locals of that call
    sel_ret,     \* the ContextSelection it returned, if it has returned
    sel_seen     \* the arguments and the result of one earlier call

VARIABLES
    \* ---- policy engine (goni-policy) ----
    policy,      \* PolicyEngine.policy: mode and allowlist
    ledger,      \* the caller's BudgetLedger
    pol_op,      \* the policy call made by the last step
    pol_ret      \* the PolicyDecision it returned

VARIABLES
    \* ---- tool executor and egress gate (goni-tools, goni-egress-gate) ----
    service,     \* the program that runs: "tools" or "egress"
    gpc,         \* per request, where its handler stands
    greq,        \* per request, the handler's locals
    gissued,     \* receipt ids generated so far
    outbox       \* the requests forwarded upstream, in order

VARIABLES
    \* ---- library functions (goni-context, goni-schema, goni-embed, goni-agent) ----
    lib_call,    \* the function the callers apply
    lib_args,    \* the arguments they apply it to
    lib_ret,     \* what the last call returned, if there was one
    lib_prev     \* what the call before it returned, if there was one

VARIABLES
    \* ---- solve_prompt (goni-core) ----
    sp_pc,       \* where the solve_prompt call stands
    sp_local,    \* its arguments and locals
    sp_ret,      \* what it returned, if it has returned
    sp_handle    \* what the caller's oneshot receiver holds

VARIABLES
    \* ---- callers' record ----
    trace        \* the calls completed so far with what each returned, in order

selVars == <<gamma, pool, sel_pc, sel_args, sel_local, sel_ret, sel_seen>>
policyVars == <<policy, ledger, pol_op, pol_ret>>
gateVars == <<service, gpc, greq, gissued, outbox>>
libVars == <<lib_call, lib_args, lib_ret, lib_prev>>
solveVars == <<sp_pc, sp_local, sp_ret, sp_handle>>
histVars == <<trace>>
serviceVars == <<selVars, policyVars, gateVars, libVars, solveVars, histVars>>

vars == <<schedVars, kernelVars, logVars, serviceVars>>

\* ------------------------------------------------------------------------
\* Bounds of the model
\* ------------------------------------------------------------------------
\* submit calls per class in SpecInMemory
MaxInteractive == 2
MaxBackground == 102
MaxMaintenance == 1
\* submit calls per class in SpecQoS, and the largest ceiling tried
MaxQoSSubmits == 3
MaxWip == 2
\* SpecLog: appender threads and append calls
NAppenders == 2
MaxAppends == 2
\* Spec: tasks, batches submitted past the kernel, largest ceiling
NTasks == 2
MaxDirect == 1
MaxKernelWip == 1
\* SpecSelect: length of the candidate list, largest token budget
MaxCandidates == 3
MaxBudget == 3
\* SpecPolicy: scopes of a token, allowlist entries, tool calls in the ledger
MaxScopes == 2
MaxAllowlist == 2
MaxToolCalls == 2
\* SpecGate: requests served, tool calls in the ledger
NRequests == 2
MaxGateCalls == 1

\* SpecHandoff: the calls the callers make
MaxCalls == 6

\* SpecBudget: the evaluate_tool calls made against one ledger
MaxEvaluations == 4

MaxRows == 2
MaxDim == 2
MaxTokens == 3
MaxFields == 2

\* ------------------------------------------------------------------------
\* goni-types
\* ------------------------------------------------------------------------
TaskClass == {"Interactive", "Background", "Maintenance"}

\* Option<T>: None is the empty tuple, Some(x) the one-element tuple.
None == <<>>
Some(x) == <<x>>

\* GoniBatch: the payload is an empty record batch; the scheduler sees meta only.
\* A fresh Uuid is modelled as the pair (class, sequence number of that class).
GoniBatch(c, n) == [id |-> <<c, n>>, class |-> c]

\* ------------------------------------------------------------------------
\* goni-sched
\* ------------------------------------------------------------------------
idx_for(class) ==
    CASE class = "Interactive" -> 0
      [] class = "Background"  -> 1
      [] class = "Maintenance" -> 2

W_INT == 1000
W_BG == 10
W_MAINT == 1
weights == [i \in 0..2 |-> CASE i = 0 -> W_INT [] i = 1 -> W_BG [] i = 2 -> W_MAINT]

\* f64::MIN, below every score w_i * Q_i
F64_MIN == -2147483647

EmptyQueues == [i \in 0..2 |-> <<>>]

\* Result<(), SchedError>
Ok == <<"Ok">>
Err(message) == <<"Err", message>>

\* Mutant of InMemorySubmit: the batch is pushed at the front of its queue.
InMemorySubmit_PushFront(q, batch) ==
    [queues |-> [q EXCEPT ![idx_for(batch.class)] = <<batch>> \o @],
     result |-> Ok]

\* InMemoryScheduler::submit: push_back on the class queue, never fails.
InMemorySubmit(q, batch) ==
    [queues |-> [q EXCEPT ![idx_for(batch.class)] = Append(@, batch)],
     result |-> Ok]

\* Mutant of ScanQueues: a queue replaces the best on an equal score too.
RECURSIVE ScanQueues_TieTakesLater(_, _, _)
ScanQueues_TieTakesLater(q, i, best) ==
    IF i > 2 THEN best
    ELSE LET q_len == Len(q[i])
             score == weights[i] * q_len
         IN  IF q_len = 0 THEN ScanQueues_TieTakesLater(q, i + 1, best)
             ELSE IF score >= best.best_score
                  THEN ScanQueues_TieTakesLater(q, i + 1, [best_idx |-> Some(i), best_score |-> score])
                  ELSE ScanQueues_TieTakesLater(q, i + 1, best)

\* The scan of InMemoryScheduler::next over queues 0, 1, 2 in order:
\* empty queues are skipped, a queue replaces the best only on a strictly
\* greater score.
RECURSIVE ScanQueues(_, _, _)
ScanQueues(q, i, best) ==
    IF i > 2 THEN best
    ELSE LET q_len == Len(q[i])
             score == weights[i] * q_len
         IN  IF q_len = 0 THEN ScanQueues(q, i + 1, best)
             ELSE IF score > best.best_score
                  THEN ScanQueues(q, i + 1, [best_idx |-> Some(i), best_score |-> score])
                  ELSE ScanQueues(q, i + 1, best)

\* Mutant of InMemoryNext: the first non-empty queue is popped, whatever
\* its score.
InMemoryNext_FirstNonEmpty(q) ==
    IF \A i \in 0..2 : q[i] = <<>> THEN [queues |-> q, result |-> None]
    ELSE LET idx == CHOOSE i \in 0..2 : q[i] # <<>> /\ \A k \in 0..(i - 1) : q[k] = <<>>
         IN  [queues |-> [q EXCEPT ![idx] = Tail(@)],
              result |-> Some(Head(q[idx]))]

\* InMemoryScheduler::next
InMemoryNext(q) ==
    LET best == ScanQueues(q, 0, [best_idx |-> None, best_score |-> F64_MIN])
    IN  IF best.best_idx # None
        THEN LET idx == best.best_idx[1]
             IN  [queues |-> [q EXCEPT ![idx] = Tail(@)],
                  result |-> Some(Head(q[idx]))]
        ELSE [queues |-> q, result |-> None]

\* usize::MAX, the Interactive ceiling of QoSScheduler::new
USIZE_MAX == 2147483647

\* Mutant of QoSNew: Interactive gets the Background ceiling.
QoSNew_InteractiveCapped(max_background, max_maintenance) ==
    [i \in 0..2 |-> CASE i = 0 -> max_background
                      [] i = 1 -> max_background
                      [] i = 2 -> max_maintenance]

\* QoSScheduler::new(max_background, max_maintenance)
QoSNew(max_background, max_maintenance) ==
    [i \in 0..2 |-> CASE i = 0 -> USIZE_MAX
                      [] i = 1 -> max_background
                      [] i = 2 -> max_maintenance]

\* Mutant of WipLimitReached: a queue at its ceiling still admits one batch.
WipLimitReached_OffByOne(q, wip, idx) == Len(q[idx]) > wip[idx]

\* The admission test of QoSScheduler::submit.
WipLimitReached(q, wip, idx) == Len(q[idx]) >= wip[idx]

\* Mutant of QoSSubmit: a batch over the ceiling is dropped with Ok.
QoSSubmit_DropsSilently(q, wip, batch) ==
    LET idx == idx_for(batch.class)
    IN  IF WipLimitReached(q, wip, idx)
        THEN [queues |-> q, result |-> Ok]
        ELSE [queues |-> [q EXCEPT ![idx] = Append(@, batch)], result |-> Ok]

\* QoSScheduler::submit
QoSSubmit(q, wip, batch) ==
    LET idx == idx_for(batch.class)
    IN  IF WipLimitReached(q, wip, idx)
        THEN [queues |-> q, result |-> Err("wip_limit_reached")]
        ELSE [queues |-> [q EXCEPT ![idx] = Append(@, batch)], result |-> Ok]

\* Mutant of QoSScan: a scan that finds every queue empty hands out a
\* default Maintenance batch.
RECURSIVE QoSScan_DefaultOnEmpty(_, _)
QoSScan_DefaultOnEmpty(q, order) ==
    IF order = <<>> THEN [queues |-> q, result |-> Some(GoniBatch("Maintenance", 0))]
    ELSE LET idx == idx_for(Head(order))
         IN  IF q[idx] # <<>>
             THEN [queues |-> [q EXCEPT ![idx] = Tail(@)], result |-> Some(Head(q[idx]))]
             ELSE QoSScan_DefaultOnEmpty(q, Tail(order))

\* QoSScheduler::next: the first non-empty queue in the order Interactive,
\* Background, Maintenance.
RECURSIVE QoSScan(_, _)
QoSScan(q, order) ==
    IF order = <<>> THEN [queues |-> q, result |-> None]
    ELSE LET idx == idx_for(Head(order))
         IN  IF q[idx] # <<>>
             THEN [queues |-> [q EXCEPT ![idx] = Tail(@)], result |-> Some(Head(q[idx]))]
             ELSE QoSScan(q, Tail(order))

\* Mutant of QoSNext: Background is looked at before Interactive.
QoSNext_BackgroundFirst(q) == QoSScan(q, <<"Background", "Interactive", "Maintenance">>)

\* QoSScheduler::next, lines 130-137: the for loop over the three classes.
QoSNext(q) == QoSScan(q, <<"Interactive", "Background", "Maintenance">>)

\* ------------------------------------------------------------------------
\* goni-receipts
\* ------------------------------------------------------------------------
\* Strings are sequences of characters. A Uuid's text and a digest's 64 hex
\* digits each count as one character.

\* ReceiptError::Io / ReceiptError::Parse
Io(msg) == <<"Io", msg>>
Parse(msg) == <<"Parse", msg>>

\* Sha256 rendered as lowercase hex, taken to be collision-free: the digest
\* of a byte string is a character that names the string.
Sha256Hex(bytes) == <<ToString(bytes)>>

\* Mutant of hash_receipt: output_hash is left out of the digest.
hash_receipt_SkipsOutput(receipt) ==
    Sha256Hex(receipt.receipt_id
              \o receipt.timestamp
              \o receipt.action_type
              \o receipt.policy_decision
              \o (IF receipt.capability_id # None THEN receipt.capability_id[1] ELSE <<>>)
              \o receipt.input_hash
              \o (IF receipt.prev_hash # None THEN receipt.prev_hash[1] ELSE <<>>))

\* hash_receipt: the digest of the concatenation, with no separators, of the
\* fields in the order receipt_id, timestamp, action_type, policy_decision,
\* capability_id (if any), input_hash, output_hash, prev_hash (if any).
hash_receipt(receipt) ==
    Sha256Hex(receipt.receipt_id
              \o receipt.timestamp
              \o receipt.action_type
              \o receipt.policy_decision
              \o (IF receipt.capability_id # None THEN receipt.capability_id[1] ELSE <<>>)
              \o receipt.input_hash
              \o receipt.output_hash
              \o (IF receipt.prev_hash # None THEN receipt.prev_hash[1] ELSE <<>>))

\* serde_json::to_string(&receipt): one line holding the fields in the order
\* of the struct.
ToJsonLine(receipt) ==
    <<receipt.receipt_id, receipt.timestamp, receipt.action_type, receipt.policy_decision,
      receipt.capability_id, receipt.input_hash, receipt.output_hash, receipt.prev_hash,
      receipt.chain_hash>>

\* serde_json::from_str(&line) succeeds on a line that holds one receipt:
\* not on a part of one, nor on one followed by more text.
IsJsonLine(line) == Len(line) = 9

\* serde_json::from_str(&line)
FromJsonLine(line) ==
    [receipt_id |-> line[1], timestamp |-> line[2], action_type |-> line[3],
     policy_decision |-> line[4], capability_id |-> line[5], input_hash |-> line[6],
     output_hash |-> line[7], prev_hash |-> line[8], chain_hash |-> line[9]]

\* Mutant of ChainReceipt: the caller's prev_hash is kept.
ChainReceipt_KeepsPrev(receipt, last) == [receipt EXCEPT !.chain_hash = hash_receipt(receipt)]

\* append, lines 48-49: the caller's prev_hash and chain_hash are replaced by
\* the chain tail and by the digest of the receipt that holds that tail.
ChainReceipt(receipt, last) ==
    LET linked == [receipt EXCEPT !.prev_hash = last]
    IN  [linked EXCEPT !.chain_hash = hash_receipt(linked)]

\* Mutant of VerifyLines: prev_hash is not compared with the line before.
RECURSIVE VerifyLines_IgnoresPrev(_, _)
VerifyLines_IgnoresPrev(lines, prev) ==
    IF lines = <<>> THEN Ok
    ELSE IF ~IsJsonLine(Head(lines)) THEN Err(Parse("json"))
    ELSE LET receipt == FromJsonLine(Head(lines))
         IN  IF receipt.chain_hash # hash_receipt(receipt)
             THEN Err(Parse("chain hash invalid"))
             ELSE VerifyLines_IgnoresPrev(Tail(lines), Some(receipt.chain_hash))

\* verify_log, lines 66-79: the walk over the lines, prev being the chain
\* hash of the line before.
RECURSIVE VerifyLines(_, _)
VerifyLines(lines, prev) ==
    IF lines = <<>> THEN Ok
    ELSE IF ~IsJsonLine(Head(lines)) THEN Err(Parse("json"))
    ELSE LET receipt == FromJsonLine(Head(lines))
         IN  IF receipt.prev_hash # prev THEN Err(Parse("hash chain mismatch"))
             ELSE IF receipt.chain_hash # hash_receipt(receipt)
                  THEN Err(Parse("chain hash invalid"))
                  ELSE VerifyLines(Tail(lines), Some(receipt.chain_hash))

\* verify_log(path): File::open fails on a path that does not exist.
verify_log(exists, lines) ==
    IF ~exists THEN Err(Io("open")) ELSE VerifyLines(lines, None)

\* Mutant of read_last_hash: the scan stops at the first line.
read_last_hash_FirstLine(exists, lines) ==
    IF ~exists \/ lines = <<>> THEN None
    ELSE Some(FromJsonLine(lines[1]).chain_hash)

\* read_last_hash(path): the chain_hash of the last line, None for no file
\* or no line.
read_last_hash(exists, lines) ==
    IF ~exists \/ lines = <<>> THEN None
    ELSE Some(FromJsonLine(lines[Len(lines)]).chain_hash)

\* Mutant of LockFree: the mutex excludes nobody.
LockFree_Always(holder) == TRUE

\* The mutex of last_hash can be taken when nobody holds it.
LockFree(holder) == holder = 0

Appenders == 1..NAppenders

\* The state of the log variables in the other specifications.
LogUnused ==
    /\ file_exists = FALSE
    /\ file = <<>>
    /\ last_hash = None
    /\ lock = 0
    /\ apc = <<>>
    /\ areceipt = <<>>
    /\ started = 0
    /\ tampered = FALSE
    /\ verify_ret = None
    /\ opened_at = 0
    /\ torn = FALSE

\* The state of the selector, policy and gate variables in the
\* specifications that do not use them.
SelUnused ==
    /\ gamma = 0
    /\ pool = <<>>
    /\ sel_pc = "idle"
    /\ sel_args = None
    /\ sel_local = None
    /\ sel_ret = None
    /\ sel_seen = None

PolicyUnused ==
    /\ policy = None
    /\ ledger = None
    /\ pol_op = <<"new">>
    /\ pol_ret = None

GateUnused ==
    /\ service = "none"
    /\ gpc = <<>>
    /\ greq = <<>>
    /\ gissued = 0
    /\ outbox = <<>>

LibUnused ==
    /\ lib_call = "none"
    /\ lib_args = <<>>
    /\ lib_ret = <<>>
    /\ lib_prev = <<>>

SolveUnused ==
    /\ sp_pc = "idle"
    /\ sp_local = <<>>
    /\ sp_ret = <<>>
    /\ sp_handle = <<>>

HistUnused == trace = <<>>

ServicesUnused ==
    SelUnused /\ PolicyUnused /\ GateUnused /\ LibUnused /\ SolveUnused /\ HistUnused

\* ------------------------------------------------------------------------
\* goni-core
\* ------------------------------------------------------------------------
\* Each task makes one call of a public method of GoniKernel.
Tasks == 1..NTasks

\* The prompt of the query a task submits: one distinct prompt per task.
Prompt(t) == <<"prompt", t>>

Apis == {"submit_user_query", "handle_user_query", "run_scheduler_once", "run_scheduler_loop"}

\* Every batch id the kernel specification can generate.
IdSpace == TaskClass \X (1..(NTasks + MaxDirect))

\* guards: the MutexGuards the call holds, by the name of their mutex.
NoLocals ==
    [prompt |-> None, class |-> None, batch_id |-> None,
     batch |-> None, req |-> None, result |-> None, ret |-> None, guards |-> {}]

\* The state of the kernel variables in the scheduler-only specifications.
KernelUnused ==
    /\ pending = <<>>
    /\ chan = <<>>
    /\ rx_dropped = {}
    /\ solved = <<>>
    /\ direct = 0
    /\ pc = <<>>
    /\ call = <<>>
    /\ local = <<>>

\* self.scheduler.submit(batch) through the trait object
SchedulerSubmit(batch) ==
    IF kind = "InMemory" THEN InMemorySubmit(queues, batch)
    ELSE QoSSubmit(queues, max_wip, batch)

\* self.scheduler.next() through the trait object
SchedulerNext ==
    IF kind = "InMemory" THEN InMemoryNext(queues) ELSE QoSNext(queues)

\* PendingRequest { prompt, class, tx }: tx is the sender of the channel of
\* the batch id the record is stored under.
PendingRequest(prompt, class, tx) == [prompt |-> prompt, class |-> class, tx |-> tx]

\* solve_prompt(prompt, class): the token stream of the inference engine for
\* the prompt, or the engine's error.
SolvePrompt(prompt, class, engine_ok) ==
    IF engine_ok THEN <<"Ok", <<"stream", prompt>>>> ELSE <<"Err", "inference">>

\* ------------------------------------------------------------------------
\* SpecInMemory: an InMemoryScheduler and its callers
\* ------------------------------------------------------------------------
SubmitCap(c) ==
    CASE c = "Interactive" -> MaxInteractive
      [] c = "Background"  -> MaxBackground
      [] c = "Maintenance" -> MaxMaintenance

InitInMemory ==
    /\ kind = "InMemory"
    /\ queues = EmptyQueues
    /\ max_wip = [i \in 0..2 |-> 0]
    /\ issued = [c \in TaskClass |-> 0]
    /\ sched_op = <<"new">>
    /\ sched_ret = None
    /\ KernelUnused
    /\ LogUnused
    /\ ServicesUnused

\* sched.submit(dummy_batch(c)).await
InMemorySubmitCall(c) ==
    /\ issued[c] < SubmitCap(c)
    /\ LET batch == GoniBatch(c, issued[c] + 1)
           r == InMemorySubmit(queues, batch)
       IN  /\ queues' = r.queues
           /\ sched_ret' = r.result
           /\ sched_op' = <<"submit", batch>>
    /\ issued' = [issued EXCEPT ![c] = @ + 1]
    /\ UNCHANGED <<kind, max_wip>>
    /\ UNCHANGED <<kernelVars, logVars, serviceVars>>

\* sched.next().await
InMemoryNextCall ==
    /\ LET r == InMemoryNext(queues)
       IN  /\ queues' = r.queues
           /\ sched_ret' = r.result
    /\ sched_op' = <<"next">>
    /\ UNCHANGED <<kind, max_wip, issued>>
    /\ UNCHANGED <<kernelVars, logVars, serviceVars>>

NextInMemory ==
    \/ \E c \in TaskClass : InMemorySubmitCall(c)
    \/ InMemoryNextCall

SpecInMemory == InitInMemory /\ [][NextInMemory]_vars

\* ------------------------------------------------------------------------
\* SpecQoS: a QoSScheduler and its callers
\* ------------------------------------------------------------------------
InitQoS ==
    /\ kind = "QoS"
    /\ queues = EmptyQueues
    /\ \E mb \in 0..MaxWip, mm \in 0..MaxWip : max_wip = QoSNew(mb, mm)
    /\ issued = [c \in TaskClass |-> 0]
    /\ sched_op = <<"new">>
    /\ sched_ret = None
    /\ KernelUnused
    /\ LogUnused
    /\ ServicesUnused

\* sched.submit(dummy_batch(c)).await
QoSSubmitCall(c) ==
    /\ issued[c] < MaxQoSSubmits
    /\ LET batch == GoniBatch(c, issued[c] + 1)
           r == QoSSubmit(queues, max_wip, batch)
       IN  /\ queues' = r.queues
           /\ sched_ret' = r.result
           /\ sched_op' = <<"submit", batch>>
    /\ issued' = [issued EXCEPT ![c] = @ + 1]
    /\ UNCHANGED <<kind, max_wip>>
    /\ UNCHANGED <<kernelVars, logVars, serviceVars>>

\* sched.next().await
QoSNextCall ==
    /\ LET r == QoSNext(queues)
       IN  /\ queues' = r.queues
           /\ sched_ret' = r.result
    /\ sched_op' = <<"next">>
    /\ UNCHANGED <<kind, max_wip, issued>>
    /\ UNCHANGED <<kernelVars, logVars, serviceVars>>

NextQoS ==
    \/ \E c \in TaskClass : QoSSubmitCall(c)
    \/ QoSNextCall

SpecQoS == InitQoS /\ [][NextQoS]_vars

\* ------------------------------------------------------------------------
\* SpecSched: a scheduler of either kind behind the Scheduler trait, and
\* its callers
\* ------------------------------------------------------------------------
InitSched == InitInMemory \/ InitQoS

NextSched ==
    \/ kind = "InMemory" /\ NextInMemory
    \/ kind = "QoS" /\ NextQoS

SpecSched == InitSched /\ [][NextSched]_vars

\* ------------------------------------------------------------------------
\* SpecHandoff: a scheduler of either kind whose callers, on any number of
\* tasks, keep a record of the calls that completed. The scheduler's mutex
\* makes each submit and each next one step.
\* ------------------------------------------------------------------------
InitHandoff ==
    /\ \/ kind = "InMemory" /\ max_wip = [i \in 0..2 |-> 0]
       \/ /\ kind = "QoS"
          /\ \E mb \in 0..MaxWip, mm \in 0..MaxWip : max_wip = QoSNew(mb, mm)
    /\ queues = EmptyQueues
    /\ issued = [c \in TaskClass |-> 0]
    /\ sched_op = <<"new">>
    /\ sched_ret = None
    /\ trace = <<>>
    /\ KernelUnused
    /\ LogUnused
    /\ SelUnused
    /\ PolicyUnused
    /\ GateUnused
    /\ LibUnused
    /\ SolveUnused

\* sched.submit(batch).await on some task
HandoffSubmit(c) ==
    /\ Len(trace) < MaxCalls
    /\ LET batch == GoniBatch(c, issued[c] + 1)
           r == SchedulerSubmit(batch)
       IN  /\ queues' = r.queues
           /\ sched_ret' = r.result
           /\ sched_op' = <<"submit", batch>>
           /\ trace' = Append(trace, [op |-> "submit", batch |-> Some(batch), ok |-> r.result = Ok])
    /\ issued' = [issued EXCEPT ![c] = @ + 1]
    /\ UNCHANGED <<kind, max_wip>>
    /\ UNCHANGED <<kernelVars, logVars, selVars, policyVars, gateVars, libVars, solveVars>>

\* sched.next().await on some task
HandoffNext ==
    /\ Len(trace) < MaxCalls
    /\ LET r == SchedulerNext
       IN  /\ queues' = r.queues
           /\ sched_ret' = r.result
           /\ trace' = Append(trace, [op |-> "next", batch |-> r.result, ok |-> r.result # None])
    /\ sched_op' = <<"next">>
    /\ UNCHANGED <<kind, max_wip, issued>>
    /\ UNCHANGED <<kernelVars, logVars, selVars, policyVars, gateVars, libVars, solveVars>>

NextHandoff ==
    \/ \E c \in TaskClass : HandoffSubmit(c)
    \/ HandoffNext

SpecHandoff == InitHandoff /\ [][NextHandoff]_vars

\* ------------------------------------------------------------------------
\* Spec: a GoniKernel over an InMemoryScheduler or a QoSScheduler, with or
\* without the executor loop, and caller tasks that each make one call
\* ------------------------------------------------------------------------
Init ==
    /\ \/ kind = "InMemory" /\ max_wip = [i \in 0..2 |-> 0]
       \/ /\ kind = "QoS"
          /\ \E mb \in 0..MaxKernelWip, mm \in 0..MaxKernelWip : max_wip = QoSNew(mb, mm)
    /\ queues = EmptyQueues
    /\ issued = [c \in TaskClass |-> 0]
    /\ sched_op = <<"new">>
    /\ sched_ret = None
    /\ pending = [id \in IdSpace |-> None]
    /\ chan = [id \in IdSpace |-> <<>>]
    /\ rx_dropped = {}
    /\ solved = [id \in IdSpace |-> <<>>]
    /\ direct = 0
    /\ pc = [t \in Tasks |-> "idle"]
    /\ call = [t \in Tasks |-> "none"]
    /\ local = [t \in Tasks |-> NoLocals]
    /\ LogUnused
    /\ ServicesUnused

\* Mutant of PendingInsert: the record is not stored.
PendingInsert_Lost(p, id, req) == p

\* The HashMap::insert of lines 79-86.
PendingInsert(p, id, req) == [p EXCEPT ![id] = Some(req)]

\* submit_user_query, lines 74-87: a fresh batch id, a fresh oneshot channel,
\* and the pending record inserted under the pending lock. It is the first
\* step of a call of submit_user_query or of handle_user_query.
SubmitUserQuery_Insert(t, api, prompt, class) ==
    /\ pc[t] = "idle"
    /\ LET batch_id == <<class, issued[class] + 1>>
       IN  /\ pending' = PendingInsert(pending, batch_id, PendingRequest(prompt, class, batch_id))
           /\ local' = [local EXCEPT ![t] = [NoLocals EXCEPT !.prompt = Some(prompt),
                                                             !.class = Some(class),
                                                             !.batch_id = Some(batch_id)]]
    /\ issued' = [issued EXCEPT ![class] = @ + 1]
    /\ call' = [call EXCEPT ![t] = api]
    /\ pc' = [pc EXCEPT ![t] = "suq_submit"]
    /\ UNCHANGED <<kind, queues, max_wip, sched_op, sched_ret, chan, solved, direct, rx_dropped>>
    /\ UNCHANGED <<logVars, serviceVars>>

\* submit_user_query, lines 89-106: the batch goes to the scheduler; an error
\* is returned with `?`, in submit_user_query and again in handle_user_query,
\* and the receiver rx goes out of scope with it.
SubmitUserQuery_Submit(t) ==
    /\ pc[t] = "suq_submit"
    /\ LET batch_id == local[t].batch_id[1]
           batch == [id |-> batch_id, class |-> local[t].class[1]]
           r == SchedulerSubmit(batch)
       IN  /\ queues' = r.queues
           /\ IF r.result = Ok
              THEN /\ rx_dropped' = rx_dropped
                   /\ IF call[t] = "handle_user_query"
                      THEN /\ pc' = [pc EXCEPT ![t] = "huq_check"]
                           /\ local' = local
                      ELSE /\ pc' = [pc EXCEPT ![t] = "done"]
                           /\ local' = [local EXCEPT ![t].ret = Some(<<"Ok", batch_id>>)]
              ELSE /\ pc' = [pc EXCEPT ![t] = "done"]
                   /\ local' = [local EXCEPT ![t].ret = Some(Err(r.result[2]))]
                   /\ rx_dropped' = rx_dropped \cup {batch_id}
    /\ UNCHANGED <<kind, max_wip, issued, sched_op, sched_ret>>
    /\ UNCHANGED <<pending, chan, solved, direct, call>>
    /\ UNCHANGED <<logVars, serviceVars>>

\* handle_user_query, line 62: the inline step is taken only if the record
\* is still pending.
HandleUserQuery_Check(t) ==
    /\ pc[t] = "huq_check"
    /\ pc' = [pc EXCEPT ![t] = IF pending[local[t].batch_id[1]] # None
                                THEN "rso_next" ELSE "huq_await"]
    /\ UNCHANGED <<schedVars, pending, chan, solved, direct, rx_dropped, call, local>>
    /\ UNCHANGED <<logVars, serviceVars>>

\* Mutant of RsoReturn: run_scheduler_loop ends after one round.
RsoReturn_LoopEnds(api) ==
    CASE api = "handle_user_query"  -> "huq_await"
      [] api = "run_scheduler_loop" -> "done"
      [] api = "run_scheduler_once" -> "done"

\* Where run_scheduler_once returns to, by the method the task called.
RsoReturn(api) ==
    CASE api = "handle_user_query"  -> "huq_await"
      [] api = "run_scheduler_loop" -> "loop_sleep"
      [] api = "run_scheduler_once" -> "done"

\* run_scheduler_once, line 111: pop one batch or return. It is also the
\* first step of a task that calls run_scheduler_once or run_scheduler_loop
\* (api names the method an idle task calls).
RunSchedulerOnce_Next(t, api) ==
    /\ \/ pc[t] = "rso_next" /\ api = call[t]
       \/ pc[t] = "idle" /\ api \in {"run_scheduler_once", "run_scheduler_loop"}
    /\ LET r == SchedulerNext
       IN  /\ call' = [call EXCEPT ![t] = api]
           /\ queues' = r.queues
           /\ IF r.result = None
              THEN /\ pc' = [pc EXCEPT ![t] = RsoReturn(api)]
                   /\ local' = local
              ELSE /\ pc' = [pc EXCEPT ![t] = "rso_remove"]
                   /\ local' = [local EXCEPT ![t].batch = r.result]
    /\ UNCHANGED <<kind, max_wip, issued, sched_op, sched_ret>>
    /\ UNCHANGED <<pending, chan, solved, direct, rx_dropped>>
    /\ UNCHANGED <<logVars, serviceVars>>

\* Mutant of PendingRemove: the record is read and left in the table.
PendingRemove_Get(p, id) == [map |-> p, removed |-> p[id]]

\* The HashMap::remove of line 114: the record stored under the id, if any.
PendingRemove(p, id) == [map |-> [p EXCEPT ![id] = None], removed |-> p[id]]

\* run_scheduler_once, lines 112-116: take the pending record of the batch
\* under the pending lock; return if there is none.
RunSchedulerOnce_Remove(t) ==
    /\ pc[t] = "rso_remove"
    /\ LET r == PendingRemove(pending, local[t].batch[1].id)
       IN  /\ pending' = r.map
           /\ IF r.removed = None
              THEN /\ pc' = [pc EXCEPT ![t] = RsoReturn(call[t])]
                   /\ local' = [local EXCEPT ![t].batch = None]
              ELSE /\ pc' = [pc EXCEPT ![t] = "rso_solve"]
                   /\ local' = [local EXCEPT ![t].req = r.removed]
    /\ UNCHANGED <<schedVars, chan, solved, direct, rx_dropped, call>>
    /\ UNCHANGED <<logVars, serviceVars>>

\* run_scheduler_once, line 118: solve_prompt for the record's prompt and
\* class, with no lock held.
RunSchedulerOnce_Solve(t, engine_ok) ==
    /\ pc[t] = "rso_solve"
    /\ LET req == local[t].req[1]
           id == local[t].batch[1].id
       IN  /\ solved' = [solved EXCEPT ![id] = Append(@, <<req.prompt, req.class>>)]
           /\ local' = [local EXCEPT ![t].result = Some(SolvePrompt(req.prompt, req.class, engine_ok))]
    /\ pc' = [pc EXCEPT ![t] = "rso_send"]
    /\ UNCHANGED <<schedVars, pending, chan, direct, rx_dropped, call>>
    /\ UNCHANGED <<logVars, serviceVars>>

\* Mutant of OneshotSend: the value is stored although the receiver is gone.
OneshotSend_IgnoresDrop(ch, dropped, tx, value) ==
    [chan |-> [ch EXCEPT ![tx] = Append(@, value)], result |-> Ok]

\* Mutant of OneshotSend: the value is stored twice.
OneshotSend_Twice(ch, dropped, tx, value) ==
    [chan |-> [ch EXCEPT ![tx] = Append(Append(@, value), value)], result |-> Ok]

\* oneshot::Sender::send(value): the value is stored for the receiver, or
\* handed back as Err(value) when the receiver has been dropped.
OneshotSend(ch, dropped, tx, value) ==
    IF tx \in dropped
    THEN [chan |-> ch, result |-> <<"Err", value>>]
    ELSE [chan |-> [ch EXCEPT ![tx] = Append(@, value)], result |-> Ok]

\* run_scheduler_once, line 119: the result goes out on the record's sender;
\* `let _ =` discards what send returns.
RunSchedulerOnce_Send(t) ==
    /\ pc[t] = "rso_send"
    /\ chan' = OneshotSend(chan, rx_dropped, local[t].req[1].tx, local[t].result[1]).chan
    /\ local' = [local EXCEPT ![t].batch = None, ![t].req = None, ![t].result = None]
    /\ pc' = [pc EXCEPT ![t] = RsoReturn(call[t])]
    /\ UNCHANGED <<schedVars, pending, rx_dropped, solved, direct, call>>
    /\ UNCHANGED <<logVars, serviceVars>>

\* handle_user_query, line 65: rx.await completes once a result was sent.
HandleUserQuery_Await(t) ==
    /\ pc[t] = "huq_await"
    /\ chan[local[t].batch_id[1]] # <<>>
    /\ local' = [local EXCEPT ![t].ret = Some(Head(chan[local[t].batch_id[1]]))]
    /\ pc' = [pc EXCEPT ![t] = "done"]
    /\ UNCHANGED <<schedVars, pending, chan, solved, direct, rx_dropped, call>>
    /\ UNCHANGED <<logVars, serviceVars>>

\* The caller of submit_user_query drops the receiver it was handed without
\* awaiting it.
DropReceiver(t) ==
    /\ pc[t] = "done"
    /\ call[t] = "submit_user_query"
    /\ local[t].ret = Some(<<"Ok", local[t].batch_id[1]>>)
    /\ local[t].batch_id[1] \notin rx_dropped
    /\ rx_dropped' = rx_dropped \cup {local[t].batch_id[1]}
    /\ UNCHANGED <<schedVars, pending, chan, solved, direct, pc, call, local>>
    /\ UNCHANGED <<logVars, serviceVars>>

\* run_scheduler_loop, line 127: the sleep between two run_scheduler_once.
RunSchedulerLoop_Sleep(t) ==
    /\ pc[t] = "loop_sleep"
    /\ pc' = [pc EXCEPT ![t] = "rso_next"]
    /\ UNCHANGED <<schedVars, pending, chan, solved, direct, rx_dropped, call, local>>
    /\ UNCHANGED <<logVars, serviceVars>>

\* Another holder of the Arc<dyn Scheduler> submits a batch of its own: the
\* kernel has no pending record for it.
DirectSubmit(c) ==
    /\ direct < MaxDirect
    /\ queues' = SchedulerSubmit(GoniBatch(c, issued[c] + 1)).queues
    /\ issued' = [issued EXCEPT ![c] = @ + 1]
    /\ direct' = direct + 1
    /\ UNCHANGED <<kind, max_wip, sched_op, sched_ret>>
    /\ UNCHANGED <<pending, chan, rx_dropped, solved, pc, call, local>>
    /\ UNCHANGED <<logVars, serviceVars>>

Next ==
    \/ \E t \in Tasks, api \in {"submit_user_query", "handle_user_query"}, class \in TaskClass :
            SubmitUserQuery_Insert(t, api, Prompt(t), class)
    \/ \E t \in Tasks : SubmitUserQuery_Submit(t)
    \/ \E t \in Tasks : HandleUserQuery_Check(t)
    \/ \E t \in Tasks, api \in Apis : RunSchedulerOnce_Next(t, api)
    \/ \E t \in Tasks : RunSchedulerOnce_Remove(t)
    \/ \E t \in Tasks, engine_ok \in BOOLEAN : RunSchedulerOnce_Solve(t, engine_ok)
    \/ \E t \in Tasks : RunSchedulerOnce_Send(t)
    \/ \E t \in Tasks : HandleUserQuery_Await(t)
    \/ \E t \in Tasks : DropReceiver(t)
    \/ \E t \in Tasks : RunSchedulerLoop_Sleep(t)
    \/ \E c \in TaskClass : DirectSubmit(c)

Spec == Init /\ [][Next]_vars

\* A step of a call that task t has begun. The runtime polls every task that
\* can make progress, and every solve_prompt call returns.
Continue(t) ==
    /\ pc[t] # "idle"
    /\ \/ SubmitUserQuery_Submit(t)
       \/ HandleUserQuery_Check(t)
       \/ RunSchedulerOnce_Next(t, call[t])
       \/ RunSchedulerOnce_Remove(t)
       \/ \E engine_ok \in BOOLEAN : RunSchedulerOnce_Solve(t, engine_ok)
       \/ RunSchedulerOnce_Send(t)
       \/ HandleUserQuery_Await(t)
       \/ RunSchedulerLoop_Sleep(t)

\* Spec with every begun call, that of run_scheduler_loop among them, taking
\* its next step whenever it stays able to.
SpecFair == Spec /\ \A t \in Tasks : WF_vars(Continue(t))

\* ------------------------------------------------------------------------
\* SpecLocks: the same GoniKernel with every Mutex::lock().await and every
\* drop of a MutexGuard as a step of its own; each task makes one call of
\* submit_user_query, handle_user_query or run_scheduler_once
\* ------------------------------------------------------------------------
\* The tasks that hold a guard of mutex m ("pending": GoniKernel.pending,
\* "scheduler": the scheduler's inner).
Holders(m) == {t \in Tasks : m \in local[t].guards}

\* The mutex a task at a lock().await waits for, and where it goes on.
LockPoints ==
    [suq_lock       |-> [mutex |-> "pending",   then |-> "suq_insert"],
     suq_sched_lock |-> [mutex |-> "scheduler", then |-> "suq_submit"],
     huq_lock       |-> [mutex |-> "pending",   then |-> "huq_check"],
     rso_sched_lock |-> [mutex |-> "scheduler", then |-> "rso_next"],
     rso_lock       |-> [mutex |-> "pending",   then |-> "rso_remove"]]

\* tokio::sync::Mutex::lock().await: completes when no guard of the mutex
\* exists; the mutex is not reentrant.
MutexLock(t) ==
    /\ pc[t] \in DOMAIN LockPoints
    /\ Holders(LockPoints[pc[t]].mutex) = {}
    /\ local' = [local EXCEPT ![t].guards = @ \cup {LockPoints[pc[t]].mutex}]
    /\ pc' = [pc EXCEPT ![t] = LockPoints[pc[t]].then]
    /\ UNCHANGED <<schedVars, pending, chan, solved, direct, rx_dropped, call>>
    /\ UNCHANGED <<logVars, serviceVars>>

\* Mutant of DropAtBlockEnd: the guard outlives its block.
DropAtBlockEnd_Kept(guards, m) == guards

\* A guard bound by `let` in a block is dropped at the closing brace
\* (goni-core lines 77-87 and 112-115; the function bodies of goni-sched).
DropAtBlockEnd(guards, m) == guards \ {m}

\* handle_user_query, line 62: the guard is a temporary of the condition of
\* the `if`, dropped when the condition has been evaluated.
DropAtConditionEnd(guards, m) == guards \ {m}

\* submit_user_query, lines 74-75: a fresh batch id and a fresh channel; the
\* call then waits for the pending lock.
Locks_SubmitUserQuery_Enter(t, api, prompt, class) ==
    /\ pc[t] = "idle"
    /\ local' = [local EXCEPT ![t] = [NoLocals EXCEPT !.prompt = Some(prompt),
                                                      !.class = Some(class),
                                                      !.batch_id = Some(<<class, issued[class] + 1>>)]]
    /\ issued' = [issued EXCEPT ![class] = @ + 1]
    /\ call' = [call EXCEPT ![t] = api]
    /\ pc' = [pc EXCEPT ![t] = "suq_lock"]
    /\ UNCHANGED <<kind, queues, max_wip, sched_op, sched_ret>>
    /\ UNCHANGED <<pending, chan, solved, direct, rx_dropped>>
    /\ UNCHANGED <<logVars, serviceVars>>

\* submit_user_query, lines 77-87: the insert under the guard, and the end
\* of the block.
Locks_SubmitUserQuery_Insert(t) ==
    /\ pc[t] = "suq_insert"
    /\ LET batch_id == local[t].batch_id[1]
       IN  pending' = PendingInsert(pending, batch_id,
                                    PendingRequest(local[t].prompt[1], local[t].class[1], batch_id))
    /\ local' = [local EXCEPT ![t].guards = DropAtBlockEnd(@, "pending")]
    /\ pc' = [pc EXCEPT ![t] = "suq_sched_lock"]
    /\ UNCHANGED <<schedVars, chan, solved, direct, rx_dropped, call>>
    /\ UNCHANGED <<logVars, serviceVars>>

\* submit_user_query, lines 101-106: scheduler.submit under the scheduler's
\* own guard, which is dropped when submit returns.
Locks_SubmitUserQuery_Submit(t) ==
    /\ pc[t] = "suq_submit"
    /\ LET batch_id == local[t].batch_id[1]
           r == SchedulerSubmit([id |-> batch_id, class |-> local[t].class[1]])
           guards == DropAtBlockEnd(local[t].guards, "scheduler")
       IN  /\ queues' = r.queues
           /\ IF r.result = Ok
              THEN /\ rx_dropped' = rx_dropped
                   /\ IF call[t] = "handle_user_query"
                      THEN /\ pc' = [pc EXCEPT ![t] = "huq_lock"]
                           /\ local' = [local EXCEPT ![t].guards = guards]
                      ELSE /\ pc' = [pc EXCEPT ![t] = "done"]
                           /\ local' = [local EXCEPT ![t].guards = guards,
                                                     ![t].ret = Some(<<"Ok", batch_id>>)]
              ELSE /\ pc' = [pc EXCEPT ![t] = "done"]
                   /\ local' = [local EXCEPT ![t].guards = guards,
                                             ![t].ret = Some(Err(r.result[2]))]
                   /\ rx_dropped' = rx_dropped \cup {batch_id}
    /\ UNCHANGED <<kind, max_wip, issued, sched_op, sched_ret>>
    /\ UNCHANGED <<pending, chan, solved, direct, call>>
    /\ UNCHANGED <<logVars, serviceVars>>

\* handle_user_query, line 62: contains_key under the guard of the
\* condition; run_scheduler_once is called if the record is there.
Locks_HandleUserQuery_Check(t) ==
    /\ pc[t] = "huq_check"
    /\ pc' = [pc EXCEPT ![t] = IF pending[local[t].batch_id[1]] # None
                                THEN "rso_sched_lock" ELSE "huq_await"]
    /\ local' = [local EXCEPT ![t].guards = DropAtConditionEnd(@, "pending")]
    /\ UNCHANGED <<schedVars, pending, chan, solved, direct, rx_dropped, call>>
    /\ UNCHANGED <<logVars, serviceVars>>

\* A task calls run_scheduler_once: it waits for the scheduler's lock.
Locks_RunSchedulerOnce_Enter(t) ==
    /\ pc[t] = "idle"
    /\ call' = [call EXCEPT ![t] = "run_scheduler_once"]
    /\ pc' = [pc EXCEPT ![t] = "rso_sched_lock"]
    /\ UNCHANGED <<schedVars, pending, chan, solved, direct, rx_dropped, local>>
    /\ UNCHANGED <<logVars, serviceVars>>

\* run_scheduler_once, line 111: scheduler.next under the scheduler's own
\* guard, which is dropped when next returns.
Locks_RunSchedulerOnce_Next(t) ==
    /\ pc[t] = "rso_next"
    /\ LET r == SchedulerNext
           guards == DropAtBlockEnd(local[t].guards, "scheduler")
       IN  /\ queues' = r.queues
           /\ IF r.result = None
              THEN /\ pc' = [pc EXCEPT ![t] = RsoReturn(call[t])]
                   /\ local' = [local EXCEPT ![t].guards = guards]
              ELSE /\ pc' = [pc EXCEPT ![t] = "rso_lock"]
                   /\ local' = [local EXCEPT ![t].guards = guards, ![t].batch = r.result]
    /\ UNCHANGED <<kind, max_wip, issued, sched_op, sched_ret>>
    /\ UNCHANGED <<pending, chan, solved, direct, rx_dropped, call>>
    /\ UNCHANGED <<logVars, serviceVars>>

\* run_scheduler_once, lines 112-116: the remove under the guard, the end
\* of the block, and the return when there was no record.
Locks_RunSchedulerOnce_Remove(t) ==
    /\ pc[t] = "rso_remove"
    /\ LET r == PendingRemove(pending, local[t].batch[1].id)
           guards == DropAtBlockEnd(local[t].guards, "pending")
       IN  /\ pending' = r.map
           /\ IF r.removed = None
              THEN /\ pc' = [pc EXCEPT ![t] = RsoReturn(call[t])]
                   /\ local' = [local EXCEPT ![t].guards = guards, ![t].batch = None]
              ELSE /\ pc' = [pc EXCEPT ![t] = "rso_solve"]
                   /\ local' = [local EXCEPT ![t].guards = guards, ![t].req = r.removed]
    /\ UNCHANGED <<schedVars, chan, solved, direct, rx_dropped, call>>
    /\ UNCHANGED <<logVars, serviceVars>>

\* The steps that take no lock are those of Spec.
NextLocks ==
    \/ \E t \in Tasks, api \in {"submit_user_query", "handle_user_query"}, class \in TaskClass :
            Locks_SubmitUserQuery_Enter(t, api, Prompt(t), class)
    \/ \E t \in Tasks : MutexLock(t)
    \/ \E t \in Tasks : Locks_SubmitUserQuery_Insert(t)
    \/ \E t \in Tasks : Locks_SubmitUserQuery_Submit(t)
    \/ \E t \in Tasks : Locks_HandleUserQuery_Check(t)
    \/ \E t \in Tasks : Locks_RunSchedulerOnce_Enter(t)
    \/ \E t \in Tasks : Locks_RunSchedulerOnce_Next(t)
    \/ \E t \in Tasks : Locks_RunSchedulerOnce_Remove(t)
    \/ \E t \in Tasks, engine_ok \in BOOLEAN : RunSchedulerOnce_Solve(t, engine_ok)
    \/ \E t \in Tasks : RunSchedulerOnce_Send(t)
    \/ \E t \in Tasks : HandleUserQuery_Await(t)

SpecLocks == Init /\ [][NextLocks]_vars

\* ------------------------------------------------------------------------
\* SpecLog: one ReceiptLog handle opened on a path that does not exist,
\* appender threads that share it, verify_log calls, and one in-place edit
\* of the file
\* ------------------------------------------------------------------------
\* The receipts callers hand to append. The hash fields overlap so that two
\* receipts can concatenate to the same bytes; prev_hash and chain_hash are
\* whatever the caller left there.
ReceiptInputs ==
    [receipt_id : {<<"U1">>},
     timestamp : {<<"t", "1">>},
     action_type : {<<"d">>},
     policy_decision : {<<"a">>},
     capability_id : {None},
     input_hash : {<<"a">>, <<"a", "b">>},
     output_hash : {<<"c">>, <<"b", "c">>},
     prev_hash : {None, Some(<<"z">>)},
     chain_hash : {<<>>, <<"z">>}]
    \cup
    [receipt_id : {<<"U1">>},
     timestamp : {<<"t", "1">>},
     action_type : {<<"d">>},
     policy_decision : {<<"a">>},
     capability_id : {Some(<<"U2">>)},
     input_hash : {<<"a">>},
     output_hash : {<<"c">>},
     prev_hash : {None, Some(<<"z">>)},
     chain_hash : {<<>>, <<"z">>}]

\* ReceiptLog::open(path) on a path that does not exist.
InitLog ==
    /\ file_exists = FALSE
    /\ file = <<>>
    /\ last_hash = read_last_hash(file_exists, file)
    /\ lock = 0
    /\ apc = [a \in Appenders |-> "idle"]
    /\ areceipt = [a \in Appenders |-> None]
    /\ started = 0
    /\ tampered = FALSE
    /\ verify_ret = None
    /\ opened_at = 0
    /\ torn = FALSE
    /\ kind = "none"
    /\ queues = EmptyQueues
    /\ max_wip = [i \in 0..2 |-> 0]
    /\ issued = [c \in TaskClass |-> 0]
    /\ sched_op = <<"new">>
    /\ sched_ret = None
    /\ KernelUnused
    /\ ServicesUnused

\* append, lines 47-49: take the lock, read the tail, link and hash the receipt.
Append_Lock(a, receipt) ==
    /\ apc[a] = "idle"
    /\ started < MaxAppends
    /\ LockFree(lock)
    /\ lock' = a
    /\ areceipt' = [areceipt EXCEPT ![a] = Some(ChainReceipt(receipt, last_hash))]
    /\ apc' = [apc EXCEPT ![a] = "write"]
    /\ started' = started + 1
    /\ UNCHANGED <<file_exists, file, last_hash, tampered, verify_ret, opened_at, torn>>
    /\ UNCHANGED <<schedVars, kernelVars, serviceVars>>

\* Bytes written to a file opened with append(true) go to its end: behind
\* the last newline they start a line, otherwise they continue the last one.
WriteBytes(lines, unfinished, bytes) ==
    IF unfinished THEN [lines EXCEPT ![Len(lines)] = @ \o bytes] ELSE Append(lines, bytes)

\* What a write of the line that fails can leave in the file: the pieces
\* of the line that were written before the error.
Fragments(line) == {SubSeq(line, 1, k) : k \in 1..(Len(line) - 1)}

\* append, lines 51-57: open the file for appending, creating it, and write
\* the line and its newline. io names what the file system does: "ok",
\* "open" (the open fails), "write" (the file is opened, the write fails
\* with nothing written), "part" (the write fails after a part of the line
\* was written) or "newline" (the line is written, the write of the newline
\* fails); on a failure append returns the error and the guard is dropped.
Append_Write(a, io) ==
    /\ apc[a] = "write"
    /\ LET line == ToJsonLine(areceipt[a][1])
       IN  CASE io = "ok" ->
                 /\ file' = WriteBytes(file, torn, line)
                 /\ torn' = FALSE
            [] io = "part" ->
                 /\ \E bytes \in Fragments(line) : file' = WriteBytes(file, torn, bytes)
                 /\ torn' = TRUE
            [] io = "newline" ->
                 /\ file' = WriteBytes(file, torn, line)
                 /\ torn' = TRUE
            [] OTHER ->
                 /\ file' = file
                 /\ torn' = torn
    /\ file_exists' = (file_exists \/ io # "open")
    /\ IF io = "ok"
       THEN /\ apc' = [apc EXCEPT ![a] = "update"]
            /\ UNCHANGED <<lock, areceipt>>
       ELSE /\ apc' = [apc EXCEPT ![a] = "idle"]
            /\ areceipt' = [areceipt EXCEPT ![a] = None]
            /\ lock' = 0
    /\ UNCHANGED <<last_hash, started, tampered, verify_ret, opened_at>>
    /\ UNCHANGED <<schedVars, kernelVars, serviceVars>>

\* Mutant of Append_Update: the tail is not updated.
Append_Update_KeepsTail(a) ==
    /\ apc[a] = "update"
    /\ lock' = 0
    /\ apc' = [apc EXCEPT ![a] = "idle"]
    /\ areceipt' = [areceipt EXCEPT ![a] = None]
    /\ UNCHANGED <<file_exists, file, last_hash, started, tampered, verify_ret, opened_at, torn>>
    /\ UNCHANGED <<schedVars, kernelVars, serviceVars>>

\* append, lines 58-59: the tail becomes the chain hash written; the guard
\* is dropped on return.
Append_Update(a) ==
    /\ apc[a] = "update"
    /\ last_hash' = Some(areceipt[a][1].chain_hash)
    /\ lock' = 0
    /\ apc' = [apc EXCEPT ![a] = "idle"]
    /\ areceipt' = [areceipt EXCEPT ![a] = None]
    /\ UNCHANGED <<file_exists, file, started, tampered, verify_ret, opened_at, torn>>
    /\ UNCHANGED <<schedVars, kernelVars, serviceVars>>

\* verify_log(path)
VerifyLog ==
    /\ verify_ret' = Some(verify_log(file_exists, file))
    /\ UNCHANGED <<file_exists, file, last_hash, lock, apc, areceipt, started, tampered, opened_at, torn>>
    /\ UNCHANGED <<schedVars, kernelVars, serviceVars>>

\* The values an edit can put in a field of a line: a Uuid in receipt_id
\* (field 1), an optional Uuid in capability_id (field 5), an optional string
\* in prev_hash (field 8) and a string, the chain hashes of the file among
\* them, in the other fields.
UuidEdits == {<<"U1">>, <<"U2">>, <<"U3">>}
StringEdits == {<<>>, <<"x">>, <<"c">>, <<"b", "c">>}
                  \cup {FromJsonLine(file[k]).chain_hash : k \in 1..Len(file)}
EditValues(field) ==
    CASE field = 1 -> UuidEdits
      [] field = 5 -> {None} \cup {Some(u) : u \in UuidEdits}
      [] field = 8 -> {None} \cup {Some(v) : v \in StringEdits}
      [] OTHER -> StringEdits

\* Somebody edits one field of one line of a log that verifies, while no
\* append is under way.
Tamper(k, field, value) ==
    /\ ~tampered
    /\ lock = 0
    /\ k \in 1..Len(file)
    /\ verify_log(file_exists, file) = Ok
    /\ value \in EditValues(field)
    /\ value # file[k][field]
    /\ file' = [file EXCEPT ![k][field] = value]
    /\ tampered' = TRUE
    /\ UNCHANGED <<file_exists, last_hash, lock, apc, areceipt, started, verify_ret, opened_at, torn>>
    /\ UNCHANGED <<schedVars, kernelVars, serviceVars>>

NextLog ==
    \/ \E a \in Appenders, receipt \in ReceiptInputs : Append_Lock(a, receipt)
    \/ \E a \in Appenders, io \in {"ok", "open", "write"} : Append_Write(a, io)
    \/ \E a \in Appenders : Append_Update(a)
    \/ VerifyLog
    \/ \E k \in 1..MaxAppends, field \in 1..9 :
          \E value \in EditValues(field) : Tamper(k, field, value)

SpecLog == InitLog /\ [][NextLog]_vars

\* ------------------------------------------------------------------------
\* SpecReopen: SpecLog with handles that are dropped and opened again on
\* the same path
\* ------------------------------------------------------------------------
\* The receipts handed to append: the callers' leftovers in prev_hash vary.
ReopenInputs ==
    {receipt \in ReceiptInputs :
        /\ receipt.capability_id = None
        /\ receipt.input_hash = <<"a">>
        /\ receipt.output_hash = <<"c">>
        /\ receipt.chain_hash = <<>>}

\* ReceiptLog::open(path) on the path of the log, once no call borrows the
\* handle before: the new handle takes its place.
Reopen ==
    /\ lock = 0
    /\ \A a \in Appenders : apc[a] = "idle"
    /\ last_hash' = read_last_hash(file_exists, file)
    /\ opened_at' = Len(file)
    /\ UNCHANGED <<file_exists, file, lock, apc, areceipt, started, tampered, verify_ret, torn>>
    /\ UNCHANGED <<schedVars, kernelVars, serviceVars>>

NextReopen ==
    \/ \E a \in Appenders, receipt \in ReopenInputs : Append_Lock(a, receipt)
    \/ \E a \in Appenders, io \in {"ok", "open", "write"} : Append_Write(a, io)
    \/ \E a \in Appenders : Append_Update(a)
    \/ VerifyLog
    \/ \E k \in 1..MaxAppends, field \in 1..9 :
          \E value \in EditValues(field) : Tamper(k, field, value)
    \/ Reopen

SpecReopen == InitLog /\ [][NextReopen]_vars

\* ------------------------------------------------------------------------
\* SpecTorn: the appenders of SpecLog on a file system whose failing writes
\* can leave a part of what was being written
\* ------------------------------------------------------------------------
NextTorn ==
    \/ \E a \in Appenders, receipt \in ReopenInputs : Append_Lock(a, receipt)
    \/ \E a \in Appenders, io \in {"ok", "open", "write", "part", "newline"} : Append_Write(a, io)
    \/ \E a \in Appenders : Append_Update(a)
    \/ VerifyLog

SpecTorn == InitLog /\ [][NextTorn]_vars

\* ------------------------------------------------------------------------
\* SpecRemove: a log of one entry, opened and appended to, from which
\* somebody then removes whole lines, and verify_log calls
\* ------------------------------------------------------------------------
\* ReceiptLog::open(path) on the log an earlier handle left with one entry.
InitRemove ==
    /\ file_exists = TRUE
    /\ \E receipt \in ReopenInputs : file = <<ToJsonLine(ChainReceipt(receipt, None))>>
    /\ last_hash = read_last_hash(file_exists, file)
    /\ lock = 0
    /\ apc = [a \in Appenders |-> "idle"]
    /\ areceipt = [a \in Appenders |-> None]
    /\ started = 0
    /\ tampered = FALSE
    /\ verify_ret = None
    /\ opened_at = Len(file)
    /\ torn = FALSE
    /\ kind = "none"
    /\ queues = EmptyQueues
    /\ max_wip = [i \in 0..2 |-> 0]
    /\ issued = [c \in TaskClass |-> 0]
    /\ sched_op = <<"new">>
    /\ sched_ret = None
    /\ KernelUnused
    /\ ServicesUnused

\* The lines of the file without those numbered in gone, in their order.
WithoutLines(lines, gone) ==
    LET kept == (1..Len(lines)) \ gone
        nth(i) == CHOOSE k \in kept : Cardinality({j \in kept : j < k}) = i - 1
    IN  [i \in 1..Cardinality(kept) |-> lines[nth(i)]]

\* Somebody removes the lines numbered in gone from a log that verifies,
\* once the appends are over; the callers note which lines of how many.
RemoveEntries(gone) ==
    /\ ~tampered
    /\ lock = 0
    /\ started = MaxAppends
    /\ gone # {}
    /\ gone \subseteq 1..Len(file)
    /\ verify_log(file_exists, file) = Ok
    /\ file' = WithoutLines(file, gone)
    /\ tampered' = TRUE
    /\ trace' = <<[op |-> "remove", gone |-> gone, of |-> Len(file)]>>
    /\ UNCHANGED <<file_exists, last_hash, lock, apc, areceipt, started, verify_ret, opened_at, torn>>
    /\ UNCHANGED <<schedVars, kernelVars, selVars, policyVars, gateVars, libVars, solveVars>>

NextRemove ==
    \/ \E a \in Appenders, receipt \in ReceiptInputs : Append_Lock(a, receipt)
    \/ \E a \in Appenders, io \in {"ok", "open", "write"} : Append_Write(a, io)
    \/ \E a \in Appenders : Append_Update(a)
    \/ VerifyLog
    \/ \E gone \in SUBSET (1..(MaxAppends + 1)) : RemoveEntries(gone)

SpecRemove == InitRemove /\ [][NextRemove]_vars

\* ------------------------------------------------------------------------
\* goni-context: FacilityLocationSelector
\* ------------------------------------------------------------------------
\* f32 values are held in fixed point: similarities, coverages and gains in
\* hundredths, gamma and relevance in tenths (their product is in
\* hundredths). The selector's embeddings are taken from vectors whose norms
\* are whole numbers, so that every cosine among them is exact in hundredths.

\* CandidateChunk { id, text, tokens, embedding, relevance }; relevance is
\* held in tenths.
CandidateChunk(id, text, tokens, embedding, relevance) ==
    [id |-> id, text |-> text, tokens |-> tokens, embedding |-> embedding,
     relevance |-> relevance]

\* ContextSelection { indices, total_tokens }
ContextSelection(indices, total_tokens) ==
    [indices |-> indices, total_tokens |-> total_tokens]

\* The chunks callers build candidate lists from: the three chunks of the
\* crate's test (a, b, c; c points between a and b), a chunk with no tokens
\* that points away from all of them, and a chunk with a null embedding and
\* a negative relevance.
ChunkKinds ==
    {CandidateChunk("a", None, 3, <<1, 0>>, 9),
     CandidateChunk("b", None, 2, <<0, 1>>, 8),
     CandidateChunk("c", None, 10, <<3, 4>>, 5),
     CandidateChunk("z", None, 0, <<-3, -4>>, 3),
     CandidateChunk("n", None, 1, <<0, 0>>, -10)}

\* The gammas a selector is built with: -1.0, 0.0 and the test's 0.1.
Gammas == {-10, 0, 1}

\* Vec indexing from 0.
At(v, i) == v[i + 1]

RECURSIVE SumSeq(_)
SumSeq(v) == IF v = <<>> THEN 0 ELSE Head(v) + SumSeq(Tail(v))

\* The greatest c in lo..hi with c * c * den <= num: the hundredths of
\* sqrt(num / den) for num = 10000 * dot^2, den = norm_a^2 * norm_b^2.
RECURSIVE FloorRoot(_, _, _, _)
FloorRoot(num, den, lo, hi) ==
    IF lo = hi THEN lo
    ELSE LET mid == (lo + hi + 1) \div 2
         IN  IF mid * mid * den <= num THEN FloorRoot(num, den, mid, hi)
             ELSE FloorRoot(num, den, lo, mid - 1)

\* cosine_similarity(a, b), in hundredths: zip stops at the shorter slice,
\* the norms run over the whole slices, and the quotient
\* dot / (norm_a * norm_b) is held rounded toward zero.
cosine_similarity(a, b) ==
    LET n == IF Len(a) < Len(b) THEN Len(a) ELSE Len(b)
        dot == SumSeq([k \in 1..n |-> a[k] * b[k]])
        norm_a2 == SumSeq([k \in 1..Len(a) |-> a[k] * a[k]])
        norm_b2 == SumSeq([k \in 1..Len(b) |-> b[k] * b[k]])
    IN  IF norm_a2 = 0 \/ norm_b2 = 0 THEN 0
        ELSE LET mag == IF dot = 0 THEN 0
                        ELSE FloorRoot(10000 * dot * dot, norm_a2 * norm_b2, 0, 100)
             IN  IF dot >= 0 THEN mag ELSE 0 - mag

\* select, lines 107-116: sim[i * n + j], clamped to non-negative
Sim(candidates, i, j) ==
    LET s == cosine_similarity(At(candidates, i).embedding, At(candidates, j).embedding)
    IN  IF s > 0 THEN s ELSE 0

\* Mutant of EarlyReturn: a zero budget does not return early.
EarlyReturn_OnEmptyOnly(n, max_tokens) == n = 0

\* select, line 99
EarlyReturn(n, max_tokens) == n = 0 \/ max_tokens = 0

\* Mutant of Fits: every candidate fits.
Fits_Always(tok, remaining_tokens) == TRUE

\* select, lines 133-136: a candidate is skipped when tok > remaining_tokens
Fits(tok, remaining_tokens) == ~(tok > remaining_tokens)

\* Mutant of InitialCoverage: the coverage of the call before is kept when
\* it has the right length.
InitialCoverage_Stale(n) ==
    IF sel_local # None /\ Len(sel_local[1].coverage) = n
    THEN sel_local[1].coverage
    ELSE [i \in 1..n |-> 0]

\* select, line 121: vec![0.0; n]
InitialCoverage(n) == [i \in 1..n |-> 0]

\* Mutant of MarkSelected: the mask is left as it was.
MarkSelected_Forgets(selected_mask, j) == selected_mask

\* select, line 157
MarkSelected(selected_mask, j) == [selected_mask EXCEPT ![j + 1] = TRUE]

\* select, lines 138-146: the marginal gain of adding candidate j
Gain(candidates, coverage, g, j) ==
    LET n == Len(candidates)
        gain_cov == SumSeq([k \in 1..n |->
                        LET s == Sim(candidates, k - 1, j)
                            new_cov == IF s > coverage[k] THEN s ELSE coverage[k]
                        IN  new_cov - coverage[k]])
    IN  gain_cov + g * At(candidates, j).relevance

\* Mutant of ScanCandidates: the best is replaced on an equal gain too.
RECURSIVE ScanCandidates_TieTakesLater(_, _, _, _, _, _)
ScanCandidates_TieTakesLater(candidates, l, g, j, best_gain, best_idx) ==
    IF j >= Len(candidates) THEN [best_gain |-> best_gain, best_idx |-> best_idx]
    ELSE IF At(l.selected_mask, j)
              \/ ~Fits(At(candidates, j).tokens, l.remaining_tokens)
         THEN ScanCandidates_TieTakesLater(candidates, l, g, j + 1, best_gain, best_idx)
         ELSE LET gain == Gain(candidates, l.coverage, g, j)
              IN  IF gain >= best_gain
                  THEN ScanCandidates_TieTakesLater(candidates, l, g, j + 1, gain, Some(j))
                  ELSE ScanCandidates_TieTakesLater(candidates, l, g, j + 1, best_gain, best_idx)

\* select, lines 128-152: the scan of one round over j = 0 .. n-1; the best
\* is replaced only by a strictly greater gain.
RECURSIVE ScanCandidates(_, _, _, _, _, _)
ScanCandidates(candidates, l, g, j, best_gain, best_idx) ==
    IF j >= Len(candidates) THEN [best_gain |-> best_gain, best_idx |-> best_idx]
    ELSE IF At(l.selected_mask, j)
              \/ ~Fits(At(candidates, j).tokens, l.remaining_tokens)
         THEN ScanCandidates(candidates, l, g, j + 1, best_gain, best_idx)
         ELSE LET gain == Gain(candidates, l.coverage, g, j)
              IN  IF gain > best_gain
                  THEN ScanCandidates(candidates, l, g, j + 1, gain, Some(j))
                  ELSE ScanCandidates(candidates, l, g, j + 1, best_gain, best_idx)

\* usize::saturating_sub
saturating_sub(a, b) == IF b > a THEN 0 ELSE a - b

\* select, lines 156-168: candidate j is selected.
SelectCandidate(candidates, l, j) ==
    [selected_indices |-> Append(l.selected_indices, j),
     selected_mask |-> MarkSelected(l.selected_mask, j),
     coverage |-> [k \in 1..Len(candidates) |->
                      LET s == Sim(candidates, k - 1, j)
                      IN  IF s > l.coverage[k] THEN s ELSE l.coverage[k]],
     remaining_tokens |-> saturating_sub(l.remaining_tokens, At(candidates, j).tokens)]

\* select, lines 182-185
TotalTokens(candidates, selected_indices) ==
    SumSeq([k \in 1..Len(selected_indices) |-> At(candidates, selected_indices[k]).tokens])

\* ------------------------------------------------------------------------
\* SpecSelect: one FacilityLocationSelector, a caller that holds a candidate
\* list and calls select with budgets of its choice
\* ------------------------------------------------------------------------
RECURSIVE SeqsUpTo(_, _)
SeqsUpTo(S, n) ==
    IF n = 0 THEN {<<>>}
    ELSE LET shorter == SeqsUpTo(S, n - 1)
         IN  shorter \cup {Append(v, x) : v \in shorter, x \in S}

\* FacilityLocationSelector::new(gamma), and the candidate list of the caller.
InitSelect ==
    /\ gamma \in Gammas
    /\ pool \in SeqsUpTo(ChunkKinds, MaxCandidates)
    /\ sel_pc = "idle"
    /\ sel_args = None
    /\ sel_local = None
    /\ sel_ret = None
    /\ sel_seen = None
    /\ kind = "none"
    /\ queues = EmptyQueues
    /\ max_wip = [i \in 0..2 |-> 0]
    /\ issued = [c \in TaskClass |-> 0]
    /\ sched_op = <<"new">>
    /\ sched_ret = None
    /\ KernelUnused
    /\ LogUnused
    /\ PolicyUnused
    /\ GateUnused
    /\ LibUnused
    /\ SolveUnused
    /\ HistUnused

\* select, lines 98-122: the early return, or the locals of the greedy loop.
\* The held selection, if any, has one more call after it.
SelectEnter(candidates, max_tokens) ==
    /\ sel_pc = "idle"
    /\ sel_args' = Some([candidates |-> candidates, max_tokens |-> max_tokens])
    /\ LET n == Len(candidates)
       IN  IF EarlyReturn(n, max_tokens)
           THEN /\ sel_ret' = Some(ContextSelection(<<>>, 0))
                /\ sel_pc' = "idle"
                /\ sel_local' = sel_local
           ELSE /\ sel_ret' = None
                /\ sel_pc' = "loop"
                /\ sel_local' = Some([selected_indices |-> <<>>,
                                      selected_mask |-> [i \in 1..n |-> FALSE],
                                      coverage |-> InitialCoverage(n),
                                      remaining_tokens |-> max_tokens])
    /\ sel_seen' = IF sel_seen = None THEN None
                   ELSE Some([sel_seen[1] EXCEPT !.later = IF @ < 2 THEN @ + 1 ELSE @])
    /\ UNCHANGED <<gamma, pool>>
    /\ UNCHANGED <<schedVars, kernelVars, logVars, policyVars, gateVars, libVars, solveVars, histVars>>

\* select, lines 124-180: one round of the greedy loop.
SelectRound ==
    /\ sel_pc = "loop"
    /\ LET candidates == sel_args[1].candidates
           l == sel_local[1]
           best == ScanCandidates(candidates, l, gamma, 0, 0, None)
       IN  IF best.best_idx # None /\ best.best_gain > 0
           THEN LET after == SelectCandidate(candidates, l, best.best_idx[1])
                IN  /\ sel_local' = Some(after)
                    /\ sel_pc' = IF after.remaining_tokens = 0 THEN "sum" ELSE "loop"
           ELSE /\ sel_local' = sel_local
                /\ sel_pc' = "sum"
    /\ UNCHANGED <<gamma, pool, sel_args, sel_ret, sel_seen>>
    /\ UNCHANGED <<schedVars, kernelVars, logVars, policyVars, gateVars, libVars, solveVars, histVars>>

\* select, lines 182-190
SelectReturn ==
    /\ sel_pc = "sum"
    /\ LET selected_indices == sel_local[1].selected_indices
       IN  sel_ret' = Some(ContextSelection(selected_indices,
                               TotalTokens(sel_args[1].candidates, selected_indices)))
    /\ sel_pc' = "idle"
    /\ UNCHANGED <<gamma, pool, sel_args, sel_local, sel_seen>>
    /\ UNCHANGED <<schedVars, kernelVars, logVars, policyVars, gateVars, libVars, solveVars, histVars>>

\* The caller holds on to the selection a call returned (sel1 of the test).
HoldSelection ==
    /\ sel_pc = "idle"
    /\ sel_ret # None
    /\ sel_seen = None
    /\ sel_seen' = Some([args |-> sel_args[1], ret |-> sel_ret[1], later |-> 0])
    /\ UNCHANGED <<gamma, pool, sel_pc, sel_args, sel_local, sel_ret>>
    /\ UNCHANGED <<schedVars, kernelVars, logVars, policyVars, gateVars, libVars, solveVars, histVars>>

NextSelect ==
    \/ \E max_tokens \in 0..MaxBudget : SelectEnter(pool, max_tokens)
    \/ SelectRound
    \/ SelectReturn
    \/ HoldSelection

SpecSelect == InitSelect /\ [][NextSelect]_vars

\* ------------------------------------------------------------------------
\* goni-policy
\* ------------------------------------------------------------------------
\* Policy { mode, allowlist }
Policy(mode, allowlist) == [mode |-> mode, allowlist |-> allowlist]

\* CapabilityToken { token_id, scopes, expires_at }
CapabilityToken(token_id, scopes, expires_at) ==
    [token_id |-> token_id, scopes |-> scopes, expires_at |-> expires_at]

\* BudgetLedger::new(bytes, tokens, tool_calls)
BudgetLedger(bytes, tokens, tool_calls) ==
    [bytes_remaining |-> bytes, tokens_remaining |-> tokens,
     tool_calls_remaining |-> tool_calls]

\* PolicyDecision::Allow / PolicyDecision::Deny(reason)
Allow == <<"Allow">>
Deny(reason) == <<"Deny", reason>>

\* PolicyEngine::default_deny() / PolicyEngine::allowlist(allowlist)
default_deny == Policy("deny", <<>>)
allowlist_policy(allowlist) == Policy("allowlist", allowlist)

\* Mutant of debit_tool_call: a counter at zero is debited once more.
debit_tool_call_BelowZero(l) ==
    IF l.tool_calls_remaining < 0
    THEN [ledger |-> l, result |-> Err(Deny("tool_call_budget_exhausted"))]
    ELSE [ledger |-> [l EXCEPT !.tool_calls_remaining = @ - 1], result |-> Ok]

\* BudgetLedger::debit_tool_call
debit_tool_call(l) ==
    IF l.tool_calls_remaining <= 0
    THEN [ledger |-> l, result |-> Err(Deny("tool_call_budget_exhausted"))]
    ELSE [ledger |-> [l EXCEPT !.tool_calls_remaining = @ - 1], result |-> Ok]

\* evaluate_tool, line 82: some scope is the tool id or the wildcard.
InScope(scopes, tool_id) ==
    \E k \in 1..Len(scopes) : scopes[k] = tool_id \/ scopes[k] = "*"

\* Mutant of evaluate_tool: an allowed call leaves the ledger as it was.
evaluate_tool_AllowUndebited(token, tool_id, l) ==
    IF ~InScope(token.scopes, tool_id)
    THEN [ledger |-> l, decision |-> Deny("scope_not_allowed")]
    ELSE LET debit == debit_tool_call(l)
         IN  IF debit.result # Ok
             THEN [ledger |-> l, decision |-> debit.result[2]]
             ELSE [ledger |-> l, decision |-> Allow]

\* Mutant of evaluate_tool: the tool call is debited before the scope test.
evaluate_tool_DebitsFirst(token, tool_id, l) ==
    LET debit == debit_tool_call(l)
    IN  IF ~InScope(token.scopes, tool_id)
        THEN [ledger |-> debit.ledger, decision |-> Deny("scope_not_allowed")]
        ELSE IF debit.result # Ok
             THEN [ledger |-> debit.ledger, decision |-> debit.result[2]]
             ELSE [ledger |-> debit.ledger, decision |-> Allow]

\* PolicyEngine::evaluate_tool
evaluate_tool(token, tool_id, l) ==
    IF ~InScope(token.scopes, tool_id)
    THEN [ledger |-> l, decision |-> Deny("scope_not_allowed")]
    ELSE LET debit == debit_tool_call(l)
         IN  IF debit.result # Ok
             THEN [ledger |-> debit.ledger, decision |-> debit.result[2]]
             ELSE [ledger |-> debit.ledger, decision |-> Allow]

\* Mutant of evaluate_egress: the allowlist is consulted before the mode.
evaluate_egress_AllowlistFirst(pol, host) ==
    IF \E k \in 1..Len(pol.allowlist) : pol.allowlist[k] = host
    THEN Allow
    ELSE IF pol.mode = "deny" THEN Deny("egress_denied") ELSE Deny("host_not_allowed")

\* PolicyEngine::evaluate_egress
evaluate_egress(pol, host) ==
    IF pol.mode = "deny"
    THEN Deny("egress_denied")
    ELSE IF \E k \in 1..Len(pol.allowlist) : pol.allowlist[k] = host
         THEN Allow
         ELSE Deny("host_not_allowed")

\* ------------------------------------------------------------------------
\* SpecPolicy: one PolicyEngine, one budget ledger, and callers of
\* evaluate_tool and evaluate_egress
\* ------------------------------------------------------------------------
ToolIds == {"demo.echo", "other.tool", "*"}

\* Hosts as they come out of a URL: two that differ in case only, another
\* host, and the empty host of a URL with no authority.
Hosts == {"a.com", "A.com", "b.com", ""}

\* The policy modes: the two the constructors produce, and another string.
Modes == {"deny", "allowlist", "open"}

\* The tokens callers present.
Tokens == {CapabilityToken(<<"U1">>, scopes, None) : scopes \in SeqsUpTo(ToolIds, MaxScopes)}

\* PolicyEngine::new(policy), default_deny() or allowlist(..), and
\* BudgetLedger::new(1, 1, tool_calls).
InitPolicy ==
    /\ \E mode \in Modes, allowlist \in SeqsUpTo({"a.com", "b.com"}, MaxAllowlist) :
          policy = Policy(mode, allowlist)
    /\ \E tool_calls \in -1..MaxToolCalls : ledger = BudgetLedger(1, 1, tool_calls)
    /\ pol_op = <<"new">>
    /\ pol_ret = None
    /\ kind = "none"
    /\ queues = EmptyQueues
    /\ max_wip = [i \in 0..2 |-> 0]
    /\ issued = [c \in TaskClass |-> 0]
    /\ sched_op = <<"new">>
    /\ sched_ret = None
    /\ KernelUnused
    /\ LogUnused
    /\ SelUnused
    /\ GateUnused
    /\ LibUnused
    /\ SolveUnused
    /\ HistUnused

\* engine.evaluate_tool(&token, tool_id, &mut ledger)
EvaluateToolCall(token, tool_id) ==
    /\ LET r == evaluate_tool(token, tool_id, ledger)
       IN  /\ ledger' = r.ledger
           /\ pol_ret' = Some(r.decision)
    /\ pol_op' = <<"evaluate_tool", token, tool_id>>
    /\ UNCHANGED policy
    /\ UNCHANGED <<schedVars, kernelVars, logVars, selVars, gateVars, libVars, solveVars, histVars>>

\* engine.evaluate_egress(host)
EvaluateEgressCall(host) ==
    /\ pol_ret' = Some(evaluate_egress(policy, host))
    /\ pol_op' = <<"evaluate_egress", host>>
    /\ UNCHANGED <<policy, ledger>>
    /\ UNCHANGED <<schedVars, kernelVars, logVars, selVars, gateVars, libVars, solveVars, histVars>>

NextPolicy ==
    \/ \E token \in Tokens, tool_id \in ToolIds : EvaluateToolCall(token, tool_id)
    \/ \E host \in Hosts : EvaluateEgressCall(host)

SpecPolicy == InitPolicy /\ [][NextPolicy]_vars

\* ------------------------------------------------------------------------
\* SpecBudget: one BudgetLedger from its creation on, with a record of the
\* decision of every evaluate_tool call made against it
\* ------------------------------------------------------------------------
\* BudgetLedger::new(bytes, tokens, tool_calls) with counters of either sign.
InitBudget ==
    /\ policy = default_deny
    /\ \E bytes \in {0, 1}, tokens \in {0, 1}, tool_calls \in -1..MaxToolCalls :
          /\ ledger = BudgetLedger(bytes, tokens, tool_calls)
          /\ trace = <<[op |-> "new", decision |-> None, ledger |-> ledger]>>
    /\ pol_op = <<"new">>
    /\ pol_ret = None
    /\ kind = "none"
    /\ queues = EmptyQueues
    /\ max_wip = [i \in 0..2 |-> 0]
    /\ issued = [c \in TaskClass |-> 0]
    /\ sched_op = <<"new">>
    /\ sched_ret = None
    /\ KernelUnused
    /\ LogUnused
    /\ SelUnused
    /\ GateUnused
    /\ LibUnused
    /\ SolveUnused

\* engine.evaluate_tool(&token, tool_id, &mut ledger)
BudgetEvaluateTool(token, tool_id) ==
    /\ Len(trace) <= MaxEvaluations
    /\ LET r == evaluate_tool(token, tool_id, ledger)
       IN  /\ ledger' = r.ledger
           /\ pol_ret' = Some(r.decision)
           /\ trace' = Append(trace, [op |-> "evaluate_tool", decision |-> Some(r.decision),
                                      ledger |-> r.ledger])
    /\ pol_op' = <<"evaluate_tool", token, tool_id>>
    /\ UNCHANGED policy
    /\ UNCHANGED <<schedVars, kernelVars, logVars, selVars, gateVars, libVars, solveVars>>

NextBudget == \E token \in Tokens, tool_id \in ToolIds : BudgetEvaluateTool(token, tool_id)

SpecBudget == InitBudget /\ [][NextBudget]_vars

\* ------------------------------------------------------------------------
\* goni-tools and goni-egress-gate: the two writers of policy receipts
\* ------------------------------------------------------------------------
\* In a receipt the fixed words (action tags, "allow", "deny:", reason tags)
\* each count as one character, like a Uuid or a digest.

\* ReceiptLog::append as one step: the mutex is held from entry to return
\* (see Append_Lock, Append_Write, Append_Update). io names what the file
\* system does: "ok", "open" (the open fails) or "write" (the write fails).
append(exists, lines, last, receipt, io) ==
    LET chained == ChainReceipt(receipt, last)
    IN  IF io = "ok"
        THEN [file_exists |-> TRUE,
              file |-> Append(lines, ToJsonLine(chained)),
              last_hash |-> Some(chained.chain_hash),
              result |-> Ok]
        ELSE [file_exists |-> (exists \/ io = "write"),
              file |-> lines,
              last_hash |-> last,
              result |-> Err(Io(io))]

\* The policy_decision string of a receipt: "allow" or format!("deny:{r}").
DecisionString(decision) ==
    IF decision = Allow THEN <<"allow">> ELSE <<"deny:", decision[2]>>

\* Uuid::new_v4(): the n-th fresh id
NewUuid(n) == <<"R" \o ToString(n)>>

\* Uuid::new_v5(&Uuid::NAMESPACE_OID, name): an id that names the name
UuidV5(name) == <<"V5:" \o name>>

\* The clock reading written into the n-th receipt.
Timestamp(n) == <<"t", ToString(n)>>

\* ToolCall { tool_id, args, agent_id, capability_token_id, state_snapshot_id,
\* policy_hash }: execute reads tool_id, args and capability_token_id.
ToolCall(tool_id, args, capability_token_id) ==
    [tool_id |-> tool_id, args |-> args, capability_token_id |-> capability_token_id]

\* ToolCall::args_hash, hex-encoded
args_hash(toolcall) == Sha256Hex(toolcall.args)

\* ToolResult { ok, output }
ToolResult(ok, output) == [ok |-> ok, output |-> output]

\* execute, lines 64-77: the receipt of a tool call
ToolReceipt(n, toolcall, decision) ==
    [receipt_id |-> NewUuid(n),
     timestamp |-> Timestamp(n),
     action_type |-> <<"toolcall">>,
     policy_decision |-> DecisionString(decision),
     capability_id |-> Some(toolcall.capability_token_id),
     input_hash |-> args_hash(toolcall),
     output_hash |-> <<"00">>,
     prev_hash |-> None,
     chain_hash |-> <<>>]

\* FetchRequest { url, method, capability_token }; a url is held as its
\* segments between '/'.
FetchRequest(url, method, capability_token) ==
    [url |-> url, method |-> method, capability_token |-> capability_token]

\* fetch, line 71: req.url.split('/').nth(2).unwrap_or("")
HostOf(url) == IF Len(url) >= 3 THEN url[3] ELSE ""

\* fetch, lines 74-87: the receipt of an egress request
EgressReceipt(n, req, decision) ==
    [receipt_id |-> NewUuid(n),
     timestamp |-> Timestamp(n),
     action_type |-> <<"egress">>,
     policy_decision |-> DecisionString(decision),
     capability_id |-> Some(UuidV5(req.capability_token)),
     input_hash |-> <<>>,
     output_hash |-> <<>>,
     prev_hash |-> None,
     chain_hash |-> <<>>]

\* ------------------------------------------------------------------------
\* SpecGate: a ToolExecutor serving execute calls, or the egress gate serving
\* fetch requests, each over its own ReceiptLog
\* ------------------------------------------------------------------------
Requests == 1..NRequests

ToolCalls ==
    {ToolCall(tool_id, <<"{", "}">>, <<"U1">>) : tool_id \in {"demo.echo", "other.tool"}}

GateTokens == {CapabilityToken(<<"U1">>, <<"demo.echo">>, None)}

Urls == {<<"https:", "", "a.com", "x">>, <<"https:", "", "b.com">>, <<"a.com", "x">>}

FetchRequests == {FetchRequest(url, None, "cap") : url \in Urls}

NoRequest == [input |-> None, decision |-> None, receipt_id |-> None,
              appended |-> None, outcome |-> None]

\* ToolExecutor::new(data_plane, policy, receipts) with a ledger of the
\* caller, or main of the egress gate (lines 31-50): default_deny for an
\* empty GONI_EGRESS_ALLOWLIST, allowlist(hosts) otherwise. The log is opened
\* on a path that does not exist.
InitGate ==
    /\ \/ /\ service = "tools"
          /\ policy = default_deny
          /\ \E tool_calls \in 0..MaxGateCalls : ledger = BudgetLedger(1, 1, tool_calls)
       \/ /\ service = "egress"
          /\ policy \in {default_deny, allowlist_policy(<<"a.com">>)}
          /\ ledger = None
    /\ pol_op = <<"new">>
    /\ pol_ret = None
    /\ gpc = [h \in Requests |-> "idle"]
    /\ greq = [h \in Requests |-> NoRequest]
    /\ gissued = 0
    /\ outbox = <<>>
    /\ LogUnused
    /\ kind = "none"
    /\ queues = EmptyQueues
    /\ max_wip = [i \in 0..2 |-> 0]
    /\ issued = [c \in TaskClass |-> 0]
    /\ sched_op = <<"new">>
    /\ sched_ret = None
    /\ KernelUnused
    /\ SelUnused
    /\ LibUnused
    /\ SolveUnused
    /\ HistUnused

\* execute, lines 62-78: the policy decision, with the caller's ledger
\* borrowed for the whole call, then the receipt and its append, whose
\* result is dropped (`let _ =`).
Execute_Append(h, toolcall, token, io) ==
    /\ service = "tools"
    /\ gpc[h] = "idle"
    /\ \A o \in Requests : gpc[o] \in {"idle", "done"}
    /\ LET r == evaluate_tool(token, toolcall.tool_id, ledger)
           receipt == ToolReceipt(gissued + 1, toolcall, r.decision)
           a == append(file_exists, file, last_hash, receipt, io)
       IN  /\ ledger' = r.ledger
           /\ file_exists' = a.file_exists
           /\ file' = a.file
           /\ last_hash' = a.last_hash
           /\ greq' = [greq EXCEPT ![h] = [NoRequest EXCEPT !.input = Some(toolcall),
                                                          !.decision = Some(r.decision),
                                                          !.receipt_id = Some(receipt.receipt_id),
                                                          !.appended = Some(a.result)]]
    /\ gissued' = gissued + 1
    /\ gpc' = [gpc EXCEPT ![h] = "decided"]
    /\ UNCHANGED <<service, outbox, policy, pol_op, pol_ret>>
    /\ UNCHANGED <<lock, apc, areceipt, started, tampered, verify_ret, opened_at, torn>>
    /\ UNCHANGED <<schedVars, kernelVars, selVars, libVars, solveVars, histVars>>

\* execute, lines 80-90: the tool result, by the decision.
Execute_Return(h) ==
    /\ service = "tools"
    /\ gpc[h] = "decided"
    /\ greq' = [greq EXCEPT ![h].outcome =
                  Some(<<"Ok", IF greq[h].decision[1] # Allow
                               THEN ToolResult(FALSE, "capability denied")
                               ELSE ToolResult(FALSE, "tool executor not implemented")>>)]
    /\ gpc' = [gpc EXCEPT ![h] = "done"]
    /\ UNCHANGED <<service, gissued, outbox>>
    /\ UNCHANGED <<schedVars, kernelVars, logVars, selVars, policyVars, libVars, solveVars, histVars>>

\* fetch, lines 71-88: the host, the policy decision, the receipt and its
\* append, whose result is dropped (`let _ =`).
Fetch_Append(h, req, io) ==
    /\ service = "egress"
    /\ gpc[h] = "idle"
    /\ LET host == HostOf(req.url)
           decision == evaluate_egress(policy, host)
           receipt == EgressReceipt(gissued + 1, req, decision)
           a == append(file_exists, file, last_hash, receipt, io)
       IN  /\ file_exists' = a.file_exists
           /\ file' = a.file
           /\ last_hash' = a.last_hash
           /\ greq' = [greq EXCEPT ![h] = [NoRequest EXCEPT !.input = Some(req),
                                                          !.decision = Some(decision),
                                                          !.receipt_id = Some(receipt.receipt_id),
                                                          !.appended = Some(a.result)]]
    /\ gissued' = gissued + 1
    /\ gpc' = [gpc EXCEPT ![h] = "decided"]
    /\ UNCHANGED <<service, outbox>>
    /\ UNCHANGED <<lock, apc, areceipt, started, tampered, verify_ret, opened_at, torn>>
    /\ UNCHANGED <<schedVars, kernelVars, selVars, policyVars, libVars, solveVars, histVars>>

\* fetch, lines 90-99: a denied request is answered 403; an allowed one is
\* sent upstream with its method (GET by default).
Fetch_Forward(h) ==
    /\ service = "egress"
    /\ gpc[h] = "decided"
    /\ IF greq[h].decision[1] # Allow
       THEN /\ greq' = [greq EXCEPT ![h].outcome = Some(<<"Err", 403, "egress denied">>)]
            /\ gpc' = [gpc EXCEPT ![h] = "done"]
            /\ outbox' = outbox
       ELSE /\ outbox' = Append(outbox, [receipt_id |-> greq[h].receipt_id[1],
                                         url |-> greq[h].input[1].url,
                                         method |-> IF greq[h].input[1].method = None
                                                    THEN "GET" ELSE greq[h].input[1].method[1]])
            /\ gpc' = [gpc EXCEPT ![h] = "forwarded"]
            /\ greq' = greq
    /\ UNCHANGED <<service, gissued>>
    /\ UNCHANGED <<schedVars, kernelVars, logVars, selVars, policyVars, libVars, solveVars, histVars>>

\* fetch, lines 100-104: the upstream answers, or the send fails (502).
Fetch_Respond(h, upstream_ok) ==
    /\ service = "egress"
    /\ gpc[h] = "forwarded"
    /\ greq' = [greq EXCEPT ![h].outcome =
                  Some(IF upstream_ok THEN <<"Ok", 200, "body">>
                       ELSE <<"Err", 502, "send">>)]
    /\ gpc' = [gpc EXCEPT ![h] = "done"]
    /\ UNCHANGED <<service, gissued, outbox>>
    /\ UNCHANGED <<schedVars, kernelVars, logVars, selVars, policyVars, libVars, solveVars, histVars>>

NextGate ==
    \/ \E h \in Requests, toolcall \in ToolCalls, token \in GateTokens,
          io \in {"ok", "open", "write"} : Execute_Append(h, toolcall, token, io)
    \/ \E h \in Requests : Execute_Return(h)
    \/ \E h \in Requests, req \in FetchRequests, io \in {"ok", "open", "write"} :
          Fetch_Append(h, req, io)
    \/ \E h \in Requests : Fetch_Forward(h)
    \/ \E h \in Requests, upstream_ok \in BOOLEAN : Fetch_Respond(h, upstream_ok)

SpecGate == InitGate /\ [][NextGate]_vars

\* ------------------------------------------------------------------------
\* arrow: data types, fields, arrays and record batches, as far as the
\* kernel reads them
\* ------------------------------------------------------------------------
\* arrow::datatypes::DataType: the variant, and for the list variants the
\* item type and the fixed length.
DataType(variant) == [kind |-> variant, item |-> "", len |-> 0]

Utf8 == DataType("Utf8")
LargeUtf8 == DataType("LargeUtf8")
Int32 == DataType("Int32")
UInt32 == DataType("UInt32")
Int64 == DataType("Int64")

FixedSizeList(item, len) == [kind |-> "FixedSizeList", item |-> item, len |-> len]
List(item) == [kind |-> "List", item |-> item, len |-> 0]

\* Field::new(name, data_type, nullable)
Field(name, data_type, nullable) ==
    [name |-> name, data_type |-> data_type, nullable |-> nullable]

\* An array: its data type and its values, one per row. A null slot is
\* None; the values of a list array are its child's, all rows in one
\* sequence.
Array(data_type, values) == [data_type |-> data_type, values |-> values]

\* RecordBatch: the schema (its fields in order), one array per field, and
\* the number of rows.
RecordBatch(schema, columns, num_rows) ==
    [schema |-> schema, columns |-> columns, num_rows |-> num_rows]

\* Schema::index_of(name): the 0-based position of the first field of that
\* name, None standing for the error.
index_of(schema, name) ==
    IF \E i \in 1..Len(schema) : schema[i].name = name
    THEN Some((CHOOSE i \in 1..Len(schema) :
                  /\ schema[i].name = name
                  /\ \A k \in 1..(i - 1) : schema[k].name # name) - 1)
    ELSE None

\* ------------------------------------------------------------------------
\* goni-context: record_batch_to_candidate_chunks
\* ------------------------------------------------------------------------
\* CandidateBuildError
MissingColumn(name) == <<"MissingColumn", name>>
InvalidColumnType(name) == <<"InvalidColumnType", name>>
EmbeddingDimMismatch(expected, actual) == <<"EmbeddingDimMismatch", expected, actual>>

\* as_any().downcast_ref::<T>(): whether the array is of the array type T.
IsStringArray(array) == array.data_type.kind = "Utf8"
IsFixedSizeListArray(array) == array.data_type.kind = "FixedSizeList"
IsFloat32Values(array) == array.data_type.item = "Float32"

\* The slice v[start..end] of a Vec, 0-based and end-exclusive.
Slice(v, start, end) == [k \in 1..(end - start) |-> v[start + k]]

\* record_batch_to_candidate_chunks, line 340 with lines 209-218: the
\* relevance of a row, an f32 held in tenths.
Relevance(query_embedding, emb_slice) ==
    cosine_similarity(query_embedding, emb_slice) \div 10

\* record_batch_to_candidate_chunks, lines 299-351: the loop over the rows
\* from `row` on, with the chunks pushed so far. A row with a null id is
\* skipped; then the tokens column is matched on its type: an Int32 row
\* with v <= 0 is skipped, a UInt32 value is taken as it is, any other type
\* returns InvalidColumnType.
RECURSIVE ChunkRows(_, _, _)
ChunkRows(c, row, chunks) ==
    IF row = c.num_rows THEN <<"Ok", chunks>>
    ELSE IF At(c.id_array.values, row) = None THEN ChunkRows(c, row + 1, chunks)
    ELSE LET id_str == At(c.id_array.values, row)[1]
             text_val == IF c.text_array = None THEN None
                         ELSE At(c.text_array[1].values, row)
             v == At(c.tokens_array.values, row)
             tokens_type == c.tokens_array.data_type.kind
             start == row * c.value_len
             emb_slice == Slice(c.raw_slice, start, start + c.value_len)
             chunk == CandidateChunk(id_str, text_val, v, emb_slice,
                                     Relevance(c.query_embedding, emb_slice))
         IN  CASE tokens_type = "Int32" ->
                    IF v <= 0 THEN ChunkRows(c, row + 1, chunks)
                    ELSE ChunkRows(c, row + 1, Append(chunks, chunk))
               [] tokens_type = "UInt32" ->
                    ChunkRows(c, row + 1, Append(chunks, chunk))
               [] OTHER -> <<"Err", InvalidColumnType(c.tokens_col)>>

\* record_batch_to_candidate_chunks, lines 233-297: the three columns are
\* located, the id column and the embedding column are downcast, the inner
\* length is compared with the query's, and the rows are walked.
record_batch_to_candidate_chunks(batch, id_col, tokens_col, embedding_col, query_embedding) ==
    LET schema == batch.schema
        id_idx == index_of(schema, id_col)
        tokens_idx == index_of(schema, tokens_col)
        emb_idx == index_of(schema, embedding_col)
        text_idx == index_of(schema, "text")
    IN  IF id_idx = None THEN <<"Err", MissingColumn(id_col)>>
        ELSE IF tokens_idx = None THEN <<"Err", MissingColumn(tokens_col)>>
        ELSE IF emb_idx = None THEN <<"Err", MissingColumn(embedding_col)>>
        ELSE LET id_array == At(batch.columns, id_idx[1])
                 text_array == IF text_idx = None THEN None
                               ELSE IF IsStringArray(At(batch.columns, text_idx[1]))
                                    THEN Some(At(batch.columns, text_idx[1]))
                                    ELSE None
                 tokens_array == At(batch.columns, tokens_idx[1])
                 emb_array == At(batch.columns, emb_idx[1])
                 value_len == emb_array.data_type.len
             IN  IF ~IsStringArray(id_array) THEN <<"Err", InvalidColumnType(id_col)>>
                 ELSE IF ~IsFixedSizeListArray(emb_array)
                      THEN <<"Err", InvalidColumnType(embedding_col)>>
                 ELSE IF ~IsFloat32Values(emb_array)
                      THEN <<"Err", InvalidColumnType(embedding_col)>>
                 ELSE IF value_len # Len(query_embedding)
                      THEN <<"Err", EmbeddingDimMismatch(Len(query_embedding), value_len)>>
                 ELSE ChunkRows([id_array |-> id_array,
                                 text_array |-> text_array,
                                 tokens_array |-> tokens_array,
                                 raw_slice |-> emb_array.values,
                                 value_len |-> value_len,
                                 num_rows |-> batch.num_rows,
                                 tokens_col |-> tokens_col,
                                 query_embedding |-> query_embedding],
                                0, <<>>)

\* ------------------------------------------------------------------------
\* Library specifications: a caller applies one function to arguments of
\* its choice, and applies it again
\* ------------------------------------------------------------------------
\* One call of the function `name`, which returns `result`.
LibraryCall(name, result) ==
    /\ lib_call = name
    /\ lib_prev = None
    /\ lib_prev' = lib_ret
    /\ lib_ret' = Some(result)
    /\ UNCHANGED <<lib_call, lib_args>>
    /\ UNCHANGED <<schedVars, kernelVars, logVars, selVars, policyVars, gateVars, solveVars, histVars>>

\* The state of the other components in the library specifications.
LibraryInit(name) ==
    /\ lib_call = name
    /\ lib_ret = None
    /\ lib_prev = None
    /\ kind = "none"
    /\ queues = EmptyQueues
    /\ max_wip = [i \in 0..2 |-> 0]
    /\ issued = [c \in TaskClass |-> 0]
    /\ sched_op = <<"new">>
    /\ sched_ret = None
    /\ KernelUnused
    /\ LogUnused
    /\ SelUnused
    /\ PolicyUnused
    /\ GateUnused
    /\ SolveUnused
    /\ HistUnused

\* ------------------------------------------------------------------------
\* SpecChunks: record_batch_to_candidate_chunks on the batches a data plane
\* can return
\* ------------------------------------------------------------------------
\* A row of a RAG batch: its id (None when null) and its token count.
RagRows == [id : {None, Some("a")}, tokens : {-1, 0, 3}]

\* The embedding stored for row r (0-based) of a batch of inner length d.
RowEmbedding(r, d) == [k \in 1..d |-> IF k = (r % d) + 1 THEN 1 ELSE 0]

RECURSIVE Flatten(_)
Flatten(vs) == IF vs = <<>> THEN <<>> ELSE Head(vs) \o Flatten(Tail(vs))

\* The batch whose id, text, tokens and embedding columns have the given
\* types (None: the batch has no such column) and whose rows are `rows`.
RagBatch(id_type, text_type, tokens_type, emb_type, rows) ==
    LET n == Len(rows)
        d == IF emb_type = None THEN 0 ELSE emb_type[1].len
        cols == <<[name |-> "id", ty |-> id_type,
                   values |-> [r \in 1..n |-> rows[r].id]],
                  [name |-> "text", ty |-> text_type,
                   values |-> [r \in 1..n |-> Some("text" \o ToString(r))]],
                  [name |-> "tokens", ty |-> tokens_type,
                   values |-> [r \in 1..n |-> rows[r].tokens]],
                  [name |-> "embedding", ty |-> emb_type,
                   values |-> Flatten([r \in 1..n |-> RowEmbedding(r - 1, d)])]>>
        present == SelectSeq(cols, LAMBDA col : col.ty # None)
    IN  RecordBatch([i \in 1..Len(present) |-> Field(present[i].name, present[i].ty[1], TRUE)],
                    [i \in 1..Len(present) |-> Array(present[i].ty[1], present[i].values)],
                    n)

\* The query embedding of the caller: a unit vector of dimension 2.
QueryEmbedding == <<1, 0>>

InitChunks ==
    /\ \E id_type \in {None, Some(Utf8), Some(LargeUtf8)},
          text_type \in {None, Some(Utf8), Some(Int32)},
          tokens_type \in {None, Some(Int32), Some(UInt32), Some(Int64)},
          emb_type \in {None, Some(List("Float32"))}
                       \cup {Some(FixedSizeList(item, d)) :
                                item \in {"Float32", "Float64"}, d \in 1..MaxDim},
          rows \in SeqsUpTo(RagRows, MaxRows) :
            /\ tokens_type = Some(UInt32) => \A r \in 1..Len(rows) : rows[r].tokens >= 0
            /\ lib_args = [batch |-> RagBatch(id_type, text_type, tokens_type, emb_type, rows),
                           id_col |-> "id", tokens_col |-> "tokens",
                           embedding_col |-> "embedding",
                           query_embedding |-> QueryEmbedding]
    /\ LibraryInit("record_batch_to_candidate_chunks")

BuildCandidates ==
    LibraryCall("record_batch_to_candidate_chunks",
                record_batch_to_candidate_chunks(lib_args.batch, lib_args.id_col,
                                                 lib_args.tokens_col, lib_args.embedding_col,
                                                 lib_args.query_embedding))

NextChunks == BuildCandidates

SpecChunks == InitChunks /\ [][NextChunks]_vars

\* ------------------------------------------------------------------------
\* goni-embed
\* ------------------------------------------------------------------------
\* A text is held as the sequence of its whitespace-separated tokens
\* (text.split_whitespace()): the empty sequence is a text that is empty or
\* all whitespace.
Vocabulary == {"hello", "world", "a", "x", "y"}

\* embed, lines 6-8: the first two bytes of the SHA-256 digest of a token.
Sha256Bytes(token) ==
    CASE token = "hello" -> <<44, 242>>
      [] token = "world" -> <<72, 110>>
      [] token = "a" -> <<202, 151>>
      [] token = "x" -> <<45, 113>>
      [] token = "y" -> <<161, 252>>
      [] token = "demo" -> <<42, 151>>
      [] token = "context" -> <<234, 119>>

\* embed, lines 5-12: the fold over the tokens, each adding +1 or -1 to the
\* component its digest selects.
RECURSIVE Accumulate(_, _, _)
Accumulate(v, tokens, dim) ==
    IF tokens = <<>> THEN v
    ELSE LET digest == Sha256Bytes(Head(tokens))
             idx == digest[1] % dim
             sign == IF digest[2] % 2 = 0 THEN 1 ELSE -1
         IN  Accumulate([v EXCEPT ![idx + 1] = @ + sign], Tail(tokens), dim)

\* A Vec<f32> whose components are num[k] / sqrt(div2).
ScaledVec(num, div2) == [num |-> num, div2 |-> div2]

\* embed, lines 13-18: the components are divided by the norm when the
\* norm is positive.
Normalize(v) ==
    LET norm2 == SumSeq([k \in 1..Len(v) |-> v[k] * v[k]])
    IN  IF norm2 > 0 THEN ScaledVec(v, norm2) ELSE ScaledVec(v, 1)

\* embed(text, dim)
embed(text, dim) == Normalize(Accumulate([k \in 1..dim |-> 0], text, dim))

\* The square of the Euclidean norm of a vector is one.
HasUnitNorm(e) == SumSeq([k \in 1..Len(e.num) |-> e.num[k] * e.num[k]]) = e.div2

IsZeroVector(e) == \A k \in 1..Len(e.num) : e.num[k] = 0

\* ------------------------------------------------------------------------
\* SpecEmbed: embed on texts of up to MaxTokens tokens
\* ------------------------------------------------------------------------
InitEmbed ==
    /\ \E text \in SeqsUpTo(Vocabulary, MaxTokens), dim \in 1..MaxDim :
            lib_args = [text |-> text, dim |-> dim]
    /\ LibraryInit("embed")

Embed == LibraryCall("embed", embed(lib_args.text, lib_args.dim))

NextEmbed == Embed

SpecEmbed == InitEmbed /\ [][NextEmbed]_vars

\* ------------------------------------------------------------------------
\* goni-core: solve_prompt
\* ------------------------------------------------------------------------
\* A String is held as the sequence of its pieces; a prompt is the sequence
\* of its whitespace-separated tokens.
ModelTier == {"LocalSmall", "LocalLarge", "RemoteHeavy"}

\* LlmRequest { prompt, context, model_tier, max_tokens }
LlmRequest(prompt, context, model_tier, max_tokens) ==
    [prompt |-> prompt, context |-> context, model_tier |-> model_tier,
     max_tokens |-> max_tokens]

\* Mutant of CtxBlock: an index is not looked up before its line is written.
RECURSIVE CtxBlock_Unchecked(_, _)
CtxBlock_Unchecked(candidates, indices) ==
    IF indices = <<>> THEN <<>>
    ELSE <<"- ", "?", "\n">> \o CtxBlock_Unchecked(candidates, Tail(indices))

\* solve_prompt, lines 168-181: one line per selected index that
\* candidates.get finds, with the chunk's text or else its id.
RECURSIVE CtxBlock(_, _)
CtxBlock(candidates, indices) ==
    IF indices = <<>> THEN <<>>
    ELSE LET idx == Head(indices)
             line == IF idx < Len(candidates)
                     THEN LET chunk == At(candidates, idx)
                          IN  <<"- ", IF chunk.text # None THEN chunk.text[1] ELSE chunk.id, "\n">>
                     ELSE <<>>
         IN  line \o CtxBlock(candidates, Tail(indices))

\* solve_prompt, lines 183-187
AugmentPrompt(prompt, ctx_block) ==
    IF ctx_block = <<>> THEN prompt
    ELSE prompt \o <<"\n\nContext:\n">> \o ctx_block

\* solve_prompt, lines 197-205: the candidate of the demo context.
DemoCandidates(emb_dim) ==
    <<CandidateChunk("demo", Some("demo context"), 1,
                     embed(<<"demo", "context">>, emb_dim).num, 10)>>

\* The prompts of the callers.
Prompts == {<<>>, <<"hello">>, <<"hello", "a">>}

\* The locals of a solve_prompt call that has just been entered.
SolveLocals(prompt, emb_dim) ==
    [prompt |-> prompt,
     emb_dim |-> emb_dim,
     query_embedding |-> embed(prompt, emb_dim).num,
     rag_batch |-> None,
     demo |-> None,
     built |-> None,
     candidates |-> None,
     max_tokens |-> None,
     context |-> None,
     augmented_prompt |-> None,
     req |-> None,
     generated |-> None]

\* ------------------------------------------------------------------------
\* SpecSolve: one solve_prompt call inside run_scheduler_once, with a data
\* plane, a selector, a router and an engine that answer as they choose
\* ------------------------------------------------------------------------
InitSolve ==
    /\ sp_pc = "idle"
    /\ sp_local = None
    /\ sp_ret = None
    /\ sp_handle = None
    /\ kind = "none"
    /\ queues = EmptyQueues
    /\ max_wip = [i \in 0..2 |-> 0]
    /\ issued = [c \in TaskClass |-> 0]
    /\ sched_op = <<"new">>
    /\ sched_ret = None
    /\ KernelUnused
    /\ LogUnused
    /\ SelUnused
    /\ PolicyUnused
    /\ GateUnused
    /\ LibUnused
    /\ HistUnused

\* solve_prompt, lines 131-144: the query embedding, and the call of
\* rag_candidates.
SolveEnter(prompt, emb_dim) ==
    /\ sp_pc = "idle"
    /\ sp_local' = Some(SolveLocals(prompt, emb_dim))
    /\ sp_pc' = "rag_candidates"
    /\ UNCHANGED <<sp_ret, sp_handle>>
    /\ UNCHANGED <<schedVars, kernelVars, logVars, selVars, policyVars, gateVars, libVars, histVars>>

\* solve_prompt, lines 146-165: rag_candidates returned a batch; the
\* candidate view is built, an error giving the empty list, and select is
\* called with a budget of 2048.
SolveRetrieved(batch) ==
    /\ sp_pc = "rag_candidates"
    /\ LET l == sp_local[1]
           built == record_batch_to_candidate_chunks(batch, "id", "tokens", "embedding",
                                                     l.query_embedding)
       IN  sp_local' = Some([l EXCEPT !.rag_batch = Some("Ok"),
                                      !.built = Some(built[1]),
                                      !.candidates = Some(IF built[1] = "Ok" THEN built[2]
                                                          ELSE <<>>),
                                      !.max_tokens = Some(2048)])
    /\ sp_pc' = "select"
    /\ UNCHANGED <<sp_ret, sp_handle>>
    /\ UNCHANGED <<schedVars, kernelVars, logVars, selVars, policyVars, gateVars, libVars, histVars>>

\* solve_prompt, lines 191-221: rag_candidates failed; with the demo flag
\* the demo candidate goes to select with a budget of 64, without it the
\* selection is empty and the prompt is kept.
SolveRetrieveFailed(demo) ==
    /\ sp_pc = "rag_candidates"
    /\ LET l == sp_local[1]
       IN  IF demo
           THEN /\ sp_local' = Some([l EXCEPT !.rag_batch = Some("Err"),
                                              !.demo = Some(TRUE),
                                              !.candidates = Some(DemoCandidates(l.emb_dim)),
                                              !.max_tokens = Some(64)])
                /\ sp_pc' = "select"
           ELSE /\ sp_local' = Some([l EXCEPT !.rag_batch = Some("Err"),
                                              !.demo = Some(FALSE),
                                              !.context = Some(ContextSelection(<<>>, 0)),
                                              !.augmented_prompt = Some(l.prompt)])
                /\ sp_pc' = "decide"
    /\ UNCHANGED <<sp_ret, sp_handle>>
    /\ UNCHANGED <<schedVars, kernelVars, logVars, selVars, policyVars, gateVars, libVars, histVars>>

\* solve_prompt, lines 162-189 and 206-211: the selector returned; the
\* prompt is augmented with the context block, or with the demo text.
SolveSelected(selection) ==
    /\ sp_pc = "select"
    /\ LET l == sp_local[1]
           aug_prompt == IF l.demo = Some(TRUE)
                         THEN l.prompt \o <<"\n\nContext:\n- ", "demo context">>
                         ELSE AugmentPrompt(l.prompt, CtxBlock(l.candidates[1], selection.indices))
       IN  sp_local' = Some([l EXCEPT !.context = Some(selection),
                                      !.augmented_prompt = Some(aug_prompt)])
    /\ sp_pc' = "decide"
    /\ UNCHANGED <<sp_ret, sp_handle>>
    /\ UNCHANGED <<schedVars, kernelVars, logVars, selVars, policyVars, gateVars, libVars, histVars>>

\* solve_prompt, lines 224-234: the router chose a tier; the request is
\* built and handed to the engine.
SolveDecided(chosen_tier) ==
    /\ sp_pc = "decide"
    /\ LET l == sp_local[1]
       IN  sp_local' = Some([l EXCEPT !.req = Some(LlmRequest(l.augmented_prompt[1],
                                                              l.context[1], chosen_tier, 512))])
    /\ sp_pc' = "generate"
    /\ UNCHANGED <<sp_ret, sp_handle>>
    /\ UNCHANGED <<schedVars, kernelVars, logVars, selVars, policyVars, gateVars, libVars, histVars>>

\* solve_prompt, lines 234-235: generate returned; its error is returned
\* with `?`, its stream with Ok.
SolveGenerated(engine_ok) ==
    /\ sp_pc = "generate"
    /\ LET l == sp_local[1]
           generated == IF engine_ok THEN <<"Ok", <<"stream", l.req[1]>>>>
                        ELSE <<"Err", "LlmError">>
       IN  /\ sp_local' = Some([l EXCEPT !.generated = Some(generated)])
           /\ sp_ret' = Some(generated)
    /\ sp_pc' = "send"
    /\ UNCHANGED sp_handle
    /\ UNCHANGED <<schedVars, kernelVars, logVars, selVars, policyVars, gateVars, libVars, histVars>>

\* run_scheduler_once, lines 118-119: the result of solve_prompt is sent
\* on the record's sender, whose receiver the caller holds.
SolveDelivered ==
    /\ sp_pc = "send"
    /\ sp_handle' = sp_ret
    /\ sp_pc' = "done"
    /\ UNCHANGED <<sp_local, sp_ret>>
    /\ UNCHANGED <<schedVars, kernelVars, logVars, selVars, policyVars, gateVars, libVars, histVars>>

\* The rows of the batches a data plane returns to solve_prompt.
SolveRows == [id : {None, Some("a")}, tokens : {3}]

\* What a selector can return for a list of candidates: any indices, in
\* range or not.
Selections == {ContextSelection(indices, 0) : indices \in SeqsUpTo(0..MaxRows, 2)}

NextSolve ==
    \/ \E prompt \in Prompts, emb_dim \in 1..MaxDim : SolveEnter(prompt, emb_dim)
    \/ \E text_type \in {None, Some(Utf8)},
          tokens_type \in {None, Some(UInt32), Some(Int64)},
          d \in 1..MaxDim,
          rows \in SeqsUpTo(SolveRows, MaxRows) :
            SolveRetrieved(RagBatch(Some(Utf8), text_type, tokens_type,
                                    Some(FixedSizeList("Float32", d)), rows))
    \/ \E demo \in BOOLEAN : SolveRetrieveFailed(demo)
    \/ \E selection \in Selections : SolveSelected(selection)
    \/ \E chosen_tier \in ModelTier : SolveDecided(chosen_tier)
    \/ \E engine_ok \in BOOLEAN : SolveGenerated(engine_ok)
    \/ SolveDelivered

SpecSolve == InitSolve /\ [][NextSolve]_vars

\* ------------------------------------------------------------------------
\* goni-schema
\* ------------------------------------------------------------------------
\* plane.rs: the data planes.
Plane == {"Knowledge", "Context", "Control", "Execution"}

\* A field of a table declaration, `fname: fty` or `fname: fty(n)`.
Col(fname, fty, n) == [fname |-> fname, fty |-> fty, n |-> n]

\* __ty_to_arrow: the arrow data type of a type token of the declarations.
ty_to_arrow(fty, n) ==
    CASE fty = "FixedSizeBinary" -> [kind |-> "FixedSizeBinary", item |-> "", len |-> n]
      [] fty = "DictU8Utf8" -> [kind |-> "Dictionary", item |-> "Utf8", len |-> 0]
      [] fty = "MapUtf8Utf8" -> [kind |-> "Map", item |-> "Utf8", len |-> 0]
      [] fty = "ListUtf8" -> List("Utf8")
      [] fty = "FixedSizeListF32" -> FixedSizeList("Float32", n)
      [] fty = "TimestampMsUtc" -> DataType("Timestamp")
      [] OTHER -> DataType(fty)

\* lib.rs: the tables declared with define_tables.
Registry ==
   <<
     [name |-> "Docs", plane |-> "Knowledge", kind |-> "Docs",
      fields |-> <<
         Col("doc_id", "FixedSizeBinary", 16),
         Col("source_uri", "LargeUtf8", 0),
         Col("mime_type", "Utf8", 0),
         Col("title", "Utf8", 0),
         Col("tags", "ListUtf8", 0),
         Col("metadata", "MapUtf8Utf8", 0)>>],
     [name |-> "Chunks", plane |-> "Knowledge", kind |-> "Chunks",
      fields |-> <<
         Col("chunk_id", "FixedSizeBinary", 16),
         Col("doc_id", "FixedSizeBinary", 16),
         Col("ordinal", "UInt32", 0),
         Col("text", "LargeUtf8", 0),
         Col("token_count", "UInt32", 0),
         Col("section_path", "ListUtf8", 0)>>],
     [name |-> "Embeddings", plane |-> "Knowledge", kind |-> "Embeddings",
      fields |-> <<
         Col("embedding_id", "FixedSizeBinary", 16),
         Col("chunk_id", "FixedSizeBinary", 16),
         Col("model_id", "DictU8Utf8", 0),
         Col("vector", "FixedSizeListF32", 1536),
         Col("dim", "UInt16", 0)>>],
     [name |-> "Requests", plane |-> "Control", kind |-> "Requests",
      fields |-> <<
         Col("request_id", "FixedSizeBinary", 16),
         Col("session_id", "FixedSizeBinary", 16),
         Col("prompt_hash", "FixedSizeBinary", 32),
         Col("prompt_tokens_est", "UInt32", 0),
         Col("budget_tokens", "UInt32", 0),
         Col("task_class", "DictU8Utf8", 0)>>],
     [name |-> "Tasks", plane |-> "Control", kind |-> "Tasks",
      fields |-> <<
         Col("task_id", "FixedSizeBinary", 16),
         Col("request_id", "FixedSizeBinary", 16),
         Col("task_type", "DictU8Utf8", 0),
         Col("state", "DictU8Utf8", 0),
         Col("queue_id", "DictU8Utf8", 0),
         Col("expected_cost_tokens", "UInt32", 0)>>],
     [name |-> "AuditRecords", plane |-> "Control", kind |-> "AuditRecords",
      fields |-> <<
         Col("audit_id", "FixedSizeBinary", 16),
         Col("agent_id", "FixedSizeBinary", 16),
         Col("policy_hash", "FixedSizeBinary", 32),
         Col("state_snapshot_id", "FixedSizeBinary", 16),
         Col("capability_token_id", "FixedSizeBinary", 16),
         Col("tool_id", "DictU8Utf8", 0),
         Col("args_hash", "FixedSizeBinary", 32),
         Col("result_hash", "FixedSizeBinary", 32),
         Col("timestamp", "TimestampMsUtc", 0),
         Col("provenance", "MapUtf8Utf8", 0)>>],
     [name |-> "CapabilityTokens", plane |-> "Control", kind |-> "CapabilityTokens",
      fields |-> <<
         Col("capability_token_id", "FixedSizeBinary", 16),
         Col("agent_id", "FixedSizeBinary", 16),
         Col("policy_hash", "FixedSizeBinary", 32),
         Col("tools", "ListUtf8", 0),
         Col("fs_read_roots", "ListUtf8", 0),
         Col("fs_write_roots", "ListUtf8", 0),
         Col("net_allowlist", "ListUtf8", 0),
         Col("budgets", "MapUtf8Utf8", 0),
         Col("issued_at", "TimestampMsUtc", 0),
         Col("expires_at", "TimestampMsUtc", 0),
         Col("provenance", "MapUtf8Utf8", 0)>>],
     [name |-> "RedactionProfiles", plane |-> "Control", kind |-> "RedactionProfiles",
      fields |-> <<
         Col("redaction_profile_id", "FixedSizeBinary", 16),
         Col("name", "Utf8", 0),
         Col("mode", "DictU8Utf8", 0),
         Col("ruleset_hash", "FixedSizeBinary", 32),
         Col("created_at", "TimestampMsUtc", 0)>>],
     [name |-> "RedactionEvents", plane |-> "Control", kind |-> "RedactionEvents",
      fields |-> <<
         Col("redaction_event_id", "FixedSizeBinary", 16),
         Col("request_id", "FixedSizeBinary", 16),
         Col("redaction_profile_id", "FixedSizeBinary", 16),
         Col("timestamp", "TimestampMsUtc", 0),
         Col("before_hash", "FixedSizeBinary", 32),
         Col("after_hash", "FixedSizeBinary", 32),
         Col("redaction_summary", "MapUtf8Utf8", 0)>>],
     [name |-> "AgentManifests", plane |-> "Control", kind |-> "AgentManifests",
      fields |-> <<
         Col("manifest_id", "FixedSizeBinary", 16),
         Col("agent_id", "FixedSizeBinary", 16),
         Col("version", "Utf8", 0),
         Col("manifest_hash", "FixedSizeBinary", 32),
         Col("manifest_uri", "Utf8", 0),
         Col("triggers", "MapUtf8Utf8", 0),
         Col("capabilities", "MapUtf8Utf8", 0),
         Col("budgets", "MapUtf8Utf8", 0),
         Col("ui_surfaces", "ListUtf8", 0),
         Col("identity_requirements", "ListUtf8", 0),
         Col("remote_access", "Boolean", 0),
         Col("tools", "ListUtf8", 0),
         Col("policy_hash", "FixedSizeBinary", 32),
         Col("state_snapshot_id", "FixedSizeBinary", 16),
         Col("provenance", "MapUtf8Utf8", 0)>>],
     [name |-> "Prompts", plane |-> "Context", kind |-> "Prompts",
      fields |-> <<
         Col("prompt_id", "FixedSizeBinary", 16),
         Col("request_id", "FixedSizeBinary", 16),
         Col("source_context_id", "FixedSizeBinary", 16),
         Col("timestamp", "TimestampMsUtc", 0),
         Col("materialization_kind", "DictU8Utf8", 0),
         Col("prompt_hash", "FixedSizeBinary", 32),
         Col("token_estimate_in", "UInt32", 0),
         Col("token_estimate_out", "UInt32", 0),
         Col("is_redacted", "Boolean", 0),
         Col("redaction_profile_id", "FixedSizeBinary", 16),
         Col("text", "LargeUtf8", 0)>>],
     [name |-> "ContextItems", plane |-> "Context", kind |-> "ContextItems",
      fields |-> <<
         Col("context_item_id", "FixedSizeBinary", 16),
         Col("context_id", "FixedSizeBinary", 16),
         Col("chunk_id", "FixedSizeBinary", 16),
         Col("cost_tokens", "UInt32", 0),
         Col("selected", "Boolean", 0),
         Col("rank", "UInt16", 0),
         Col("marginal_gain", "Float32", 0)>>],
     [name |-> "StateSnapshots", plane |-> "Knowledge", kind |-> "StateSnapshots",
      fields |-> <<
         Col("snapshot_id", "FixedSizeBinary", 16),
         Col("state_version", "UInt32", 0),
         Col("s_core", "FixedSizeListF32", 1536),
         Col("s_core_dim", "UInt16", 0),
         Col("f_sparse", "MapUtf8Utf8", 0),
         Col("created_at", "TimestampMsUtc", 0),
         Col("agent_id", "FixedSizeBinary", 16),
         Col("policy_hash", "FixedSizeBinary", 32),
         Col("state_snapshot_id", "FixedSizeBinary", 16),
         Col("provenance", "MapUtf8Utf8", 0)>>],
     [name |-> "StateDeltas", plane |-> "Knowledge", kind |-> "StateDeltas",
      fields |-> <<
         Col("delta_id", "FixedSizeBinary", 16),
         Col("snapshot_id", "FixedSizeBinary", 16),
         Col("delta_kind", "DictU8Utf8", 0),
         Col("delta_vector", "FixedSizeListF32", 1536),
         Col("delta_dim", "UInt16", 0),
         Col("f_sparse_patch", "MapUtf8Utf8", 0),
         Col("timestamp", "TimestampMsUtc", 0),
         Col("agent_id", "FixedSizeBinary", 16),
         Col("policy_hash", "FixedSizeBinary", 32),
         Col("state_snapshot_id", "FixedSizeBinary", 16),
         Col("provenance", "MapUtf8Utf8", 0)>>],
     [name |-> "LatentSummaries", plane |-> "Knowledge", kind |-> "LatentSummaries",
      fields |-> <<
         Col("summary_id", "FixedSizeBinary", 16),
         Col("snapshot_id", "FixedSizeBinary", 16),
         Col("summary_kind", "DictU8Utf8", 0),
         Col("summary_vector", "FixedSizeListF32", 1536),
         Col("summary_dim", "UInt16", 0),
         Col("summary_hash", "FixedSizeBinary", 32),
         Col("timestamp", "TimestampMsUtc", 0),
         Col("agent_id", "FixedSizeBinary", 16),
         Col("policy_hash", "FixedSizeBinary", 32),
         Col("state_snapshot_id", "FixedSizeBinary", 16),
         Col("provenance", "MapUtf8Utf8", 0)>>],
     [name |-> "MemoryEntries", plane |-> "Knowledge", kind |-> "MemoryEntries",
      fields |-> <<
         Col("memory_id", "FixedSizeBinary", 16),
         Col("timestamp", "TimestampMsUtc", 0),
         Col("value", "MapUtf8Utf8", 0),
         Col("confidence", "Float32", 0),
         Col("source_chunk_ids", "ListUtf8", 0),
         Col("confirmed_by_event_id", "FixedSizeBinary", 16),
         Col("review_at", "TimestampMsUtc", 0),
         Col("ttl_ms", "UInt32", 0),
         Col("conflict_state", "DictU8Utf8", 0),
         Col("embedding", "FixedSizeListF32", 1536),
         Col("embedding_dim", "UInt16", 0)>>],
     [name |-> "LlmCalls", plane |-> "Execution", kind |-> "LlmCalls",
      fields |-> <<
         Col("call_id", "FixedSizeBinary", 16),
         Col("request_id", "FixedSizeBinary", 16),
         Col("model_id", "DictU8Utf8", 0),
         Col("prompt_tokens", "UInt32", 0),
         Col("completion_tokens", "UInt32", 0),
         Col("total_tokens", "UInt32", 0),
         Col("latency_ms", "UInt32", 0),
         Col("cache_hit", "Boolean", 0)>>],
     [name |-> "PlatformSignals", plane |-> "Execution", kind |-> "PlatformSignals",
      fields |-> <<
         Col("signal_id", "FixedSizeBinary", 16),
         Col("timestamp", "TimestampMsUtc", 0),
         Col("device_id", "FixedSizeBinary", 16),
         Col("session_id", "FixedSizeBinary", 16),
         Col("thermal_throttled", "Boolean", 0),
         Col("thermal_domain", "DictU8Utf8", 0),
         Col("dvfs_state", "DictU8Utf8", 0),
         Col("free_ram_mb", "UInt32", 0),
         Col("swap_in_mb", "UInt32", 0),
         Col("major_faults", "UInt32", 0),
         Col("bytes_written_today", "Int64", 0),
         Col("waf_estimate", "Float32", 0),
         Col("ssd_health", "Float32", 0),
         Col("npu_shape_buckets", "ListUtf8", 0),
         Col("supported_quant", "ListUtf8", 0),
         Col("gpu_active", "Boolean", 0),
         Col("gpu_wake_ms_p95", "UInt32", 0),
         Col("solver_wake_count", "UInt32", 0),
         Col("solver_active_ms", "UInt32", 0),
         Col("encoder_active_ms", "UInt32", 0)>>],
     [name |-> "PlatformCapabilities", plane |-> "Execution", kind |-> "PlatformCapabilities",
      fields |-> <<
         Col("capability_id", "FixedSizeBinary", 16),
         Col("timestamp", "TimestampMsUtc", 0),
         Col("device_id", "FixedSizeBinary", 16),
         Col("npu_shape_buckets", "ListUtf8", 0),
         Col("supported_quant", "ListUtf8", 0)>>],
     [name |-> "Metrics", plane |-> "Execution", kind |-> "Metrics",
      fields |-> <<
         Col("metric_id", "FixedSizeBinary", 16),
         Col("name", "DictU8Utf8", 0),
         Col("value_float", "Float64", 0),
         Col("value_int", "Int64", 0),
         Col("labels", "MapUtf8Utf8", 0)>>]
   >>

Tables == 1..Len(Registry)

\* define_tables, lines 125-146: the spine fields every table starts with.
Spine ==
    <<Field("row_id", ty_to_arrow("FixedSizeBinary", 16), FALSE),
      Field("tenant_id", ty_to_arrow("FixedSizeBinary", 16), FALSE),
      Field("plane", DataType("UInt8"), FALSE),
      Field("kind", ty_to_arrow("DictU8Utf8", 0), FALSE),
      Field("schema_version", DataType("UInt16"), FALSE),
      Field("ts_created", ty_to_arrow("TimestampMsUtc", 0), FALSE),
      Field("ts_valid_from", ty_to_arrow("TimestampMsUtc", 0), FALSE)>>

\* $Name::schema(): the spine, then the declared fields, nullable.
schema(table) ==
    Spine \o [i \in 1..Len(table.fields) |->
                Field(table.fields[i].fname,
                      ty_to_arrow(table.fields[i].fty, table.fields[i].n), TRUE)]

\* __guard_txt_large_utf8: whether the declaration compiles.
guard_txt_large_utf8(table) ==
    \A i \in 1..Len(table.fields) :
        ~(table.plane \in {"Control", "Execution"} /\ table.fields[i].fty = "LargeUtf8")

\* Mutant of check_txt_invariants: only the Control plane is checked.
check_txt_invariants_ControlOnly(table_name, plane, fields) ==
    IF plane = "Control" /\ \E i \in 1..Len(fields) : fields[i].data_type = LargeUtf8
    THEN <<"Err", <<"TXT axiom violated", table_name, plane>>>>
    ELSE <<"Ok">>

\* __check_txt_invariants(table_name, plane, schema)
check_txt_invariants(table_name, plane, fields) ==
    IF /\ plane \in {"Control", "Execution"}
       /\ \E i \in 1..Len(fields) : fields[i].data_type = LargeUtf8
    THEN <<"Err", <<"TXT axiom violated", table_name, plane>>>>
    ELSE <<"Ok">>

\* $Name::new(inner): the batch wrapper, or the error of the check.
TableNew(table, inner) ==
    LET checked == check_txt_invariants(table.name, table.plane, inner.schema)
    IN  IF checked = <<"Ok">> THEN <<"Ok", [inner |-> inner]>> ELSE checked

\* RecordBatch::new_empty(schema)
new_empty(fields) ==
    RecordBatch(fields, [i \in 1..Len(fields) |-> Array(fields[i].data_type, <<>>)], 0)

\* ------------------------------------------------------------------------
\* SpecSchema: the constructor `new` of each declared table, on batches of
\* the table's own schema and of other schemas
\* ------------------------------------------------------------------------
\* The fields a batch of another schema is made of.
ForeignFields ==
    {Field("text", LargeUtf8, TRUE), Field("title", Utf8, TRUE), Field("ordinal", UInt32, TRUE)}

InitSchema ==
    /\ \E t \in Tables :
          \E fields \in {schema(Registry[t]),
                         schema(Registry[t]) \o <<Field("text", LargeUtf8, TRUE)>>}
                        \cup SeqsUpTo(ForeignFields, MaxFields) :
              lib_args = [table |-> Registry[t], inner |-> new_empty(fields)]
    /\ LibraryInit("new")

New == LibraryCall("new", TableNew(lib_args.table, lib_args.inner))

NextSchema == New

SpecSchema == InitSchema /\ [][NextSchema]_vars

\* ------------------------------------------------------------------------
\* goni-agent
\* ------------------------------------------------------------------------
\* A YAML document is held as the mapping it parses to: for each key of
\* the manifest format, and for one key outside it, the value or None when
\* the document has no such key.
ManifestKeys ==
    {"id", "version", "triggers", "permissions", "budgets", "tools", "ui_surfaces",
     "identity_requirements", "remote_access", "extra"}

\* Permissions { fs_read, fs_write, network, sensors }
Permissions(fs_read, fs_write, network, sensors) ==
    [fs_read |-> fs_read, fs_write |-> fs_write, network |-> network, sensors |-> sensors]

\* Budgets { solver_wake_per_hour, max_ssd_writes_per_day_mb, max_execution_time_ms }
Budgets(solver_wake_per_hour, max_ssd_writes_per_day_mb, max_execution_time_ms) ==
    [solver_wake_per_hour |-> solver_wake_per_hour,
     max_ssd_writes_per_day_mb |-> max_ssd_writes_per_day_mb,
     max_execution_time_ms |-> max_execution_time_ms]

\* #[derive(Default)] of Budgets
DefaultBudgets == Budgets(None, None, None)

\* The value a document gives to a key it has: those of the manifests of
\* the tests.
ManifestValue(key) ==
    CASE key = "id" -> "goni.agent.new"
      [] key = "version" -> "0.2.0"
      [] key = "triggers" -> <<[type |-> "event", name |-> "inbox_digest"]>>
      [] key = "permissions" -> Permissions(<<"~/Mail">>, <<"~/Mail/Out">>, TRUE, <<>>)
      [] key = "budgets" -> Budgets(Some(4), None, Some(60000))
      [] key = "tools" -> <<"report_writer">>
      [] key = "ui_surfaces" -> <<"dashboard_tile", "inbox_sidebar">>
      [] key = "identity_requirements" -> <<"user_session">>
      [] key = "remote_access" -> TRUE
      [] key = "extra" -> "anything"

\* The document that has exactly the keys `present`.
YamlDocument(present) ==
    [key \in ManifestKeys |-> IF key \in present THEN Some(ManifestValue(key)) ELSE None]

\* #[serde(default)] on a field: the value of the key, or the default.
OrDefault(value, default) == IF value = None THEN default ELSE value[1]

\* AgentManifest::parse_yaml, by the derived Deserialize of AgentManifest:
\* id and permissions have no #[serde(default)] and are required, version
\* is an Option, the other fields take their default, and keys outside
\* the format are ignored.
parse_yaml(yaml) ==
    IF yaml["id"] = None THEN <<"Err", <<"missing field", "id">>>>
    ELSE IF yaml["permissions"] = None THEN <<"Err", <<"missing field", "permissions">>>>
    ELSE <<"Ok", [id |-> yaml["id"][1],
                  version |-> yaml["version"],
                  triggers |-> OrDefault(yaml["triggers"], <<>>),
                  permissions |-> yaml["permissions"][1],
                  budgets |-> OrDefault(yaml["budgets"], DefaultBudgets),
                  tools |-> OrDefault(yaml["tools"], <<>>),
                  ui_surfaces |-> OrDefault(yaml["ui_surfaces"], <<>>),
                  identity_requirements |-> OrDefault(yaml["identity_requirements"], <<>>),
                  remote_access |-> OrDefault(yaml["remote_access"], FALSE)]>>

\* ------------------------------------------------------------------------
\* SpecManifest: parse_yaml on documents with any of the keys
\* ------------------------------------------------------------------------
InitManifest ==
    /\ \E present \in SUBSET ManifestKeys : lib_args = [yaml |-> YamlDocument(present)]
    /\ LibraryInit("parse_yaml")

ParseYaml == LibraryCall("parse_yaml", parse_yaml(lib_args.yaml))

NextManifest == ParseYaml

SpecManifest == InitManifest /\ [][NextManifest]_vars

\* ========================================================================
\* Claims
\* ========================================================================

\* C2 (as stated): with the default weights, after N >= 1 Background batches
\* and then one Interactive batch have been submitted with no next in between,
\* next returns the Interactive batch, for every N.
C2_InteractiveAfterAnyBacklog ==
    [][(/\ InMemoryNextCall
        /\ Len(queues[0]) = 1
        /\ Len(queues[1]) >= 1
        /\ Len(queues[2]) = 0
        /\ issued = [c \in TaskClass |->
                       CASE c = "Interactive" -> 1
                         [] c = "Background"  -> Len(queues[1])
                         [] c = "Maintenance" -> 0])
       => sched_ret' = Some(Head(queues[0]))]_vars

\* C2 (amended): the same for 1 <= N <= 100, that is as long as
\* N * w_Background <= w_Interactive; a tie keeps the Interactive queue,
\* which is scanned first.
C2_InteractiveAfterBacklogUpTo100 ==
    [][(/\ InMemoryNextCall
        /\ Len(queues[0]) = 1
        /\ Len(queues[1]) >= 1
        /\ Len(queues[1]) * W_BG <= W_INT
        /\ Len(queues[2]) = 0
        /\ issued = [c \in TaskClass |->
                       CASE c = "Interactive" -> 1
                         [] c = "Background"  -> Len(queues[1])
                         [] c = "Maintenance" -> 0])
       => sched_ret' = Some(Head(queues[0]))]_vars

\* C2 witness: next has just returned the Interactive batch that was submitted
\* after 100 Background batches (the tie 100 * 10 = 1000).
C2_Witness ==
    /\ kind = "InMemory"
    /\ sched_op = <<"next">>
    /\ sched_ret = Some(GoniBatch("Interactive", 1))
    /\ Len(queues[1]) = W_INT \div W_BG
    /\ issued["Background"] = W_INT \div W_BG
    /\ issued["Interactive"] = 1
    /\ issued["Maintenance"] = 0

\* ------------------------------------------------------------------------
\* Orchestrator claims (Spec)
\* ------------------------------------------------------------------------
LoopRunning == \E t \in Tasks : call[t] = "run_scheduler_loop"

AllQueuesEmpty == \A i \in 0..2 : queues[i] = <<>>

\* C1: when scheduler.submit fails inside submit_user_query, the call returns
\* that error to its caller and the pending table holds no record for the
\* batch id the call generated.
C1_SubmitErrorRemovesPending ==
    [][\A t \in Tasks :
          (/\ SubmitUserQuery_Submit(t)
           /\ SchedulerSubmit([id |-> local[t].batch_id[1],
                               class |-> local[t].class[1]]).result # Ok)
          => (/\ pc'[t] = "done"
              /\ local'[t].ret = Some(Err("wip_limit_reached"))
              /\ pending'[local[t].batch_id[1]] = None)]_vars

\* C3: with no executor loop running (and every queued batch coming from
\* submit_user_query), a handle_user_query call whose submit succeeded never
\* waits forever on its receiver: once every task is idle, has returned or
\* is blocked on its receiver, no task is blocked on a channel that holds no
\* result.
C3_InlineStepDeliversOwnResult ==
    (/\ ~LoopRunning
     /\ direct = 0
     /\ \A t \in Tasks : pc[t] \in {"idle", "done", "huq_await"})
    => \A t \in Tasks :
          pc[t] = "huq_await" => chan[local[t].batch_id[1]] # <<>>

\* C8: run_scheduler_once on a batch that has a pending record removes the
\* record, runs solve_prompt once for the record's prompt and class and
\* sends the result once on the record's channel; on a batch with no
\* pending record it solves nothing, sends nothing and leaves the pending
\* table unchanged; on an empty scheduler it does nothing.
C8_RunSchedulerOnce ==
    /\ [][\A t \in Tasks :
            /\ RunSchedulerOnce_Remove(t) =>
                 LET id == local[t].batch[1].id
                 IN  /\ solved' = solved /\ chan' = chan
                     /\ IF pending[id] # None
                        THEN /\ pending' = [pending EXCEPT ![id] = None]
                             /\ local'[t].req = pending[id]
                             /\ pc'[t] = "rso_solve"
                        ELSE /\ pending' = pending
                             /\ pc'[t] = RsoReturn(call[t])
            /\ (\E ok \in BOOLEAN : RunSchedulerOnce_Solve(t, ok)) =>
                 LET id == local[t].batch[1].id
                     req == local[t].req[1]
                 IN  /\ solved' = [solved EXCEPT ![id] = <<<<req.prompt, req.class>>>>]
                     /\ local'[t].result \in {Some(SolvePrompt(req.prompt, req.class, ok)) : ok \in BOOLEAN}
                     /\ pending' = pending /\ chan' = chan
                     /\ pc'[t] = "rso_send"
            /\ RunSchedulerOnce_Send(t) =>
                 LET id == local[t].batch[1].id
                 IN  /\ chan' = IF id \in rx_dropped THEN chan
                                 ELSE [chan EXCEPT ![id] = <<local[t].result[1]>>]
                     /\ pending' = pending /\ solved' = solved
                     /\ pc'[t] = RsoReturn(call[t])
            /\ ((\E api \in Apis : RunSchedulerOnce_Next(t, api)) /\ AllQueuesEmpty) =>
                 /\ UNCHANGED <<queues, pending, chan, solved>>
                 /\ pc'[t] \in {"huq_await", "loop_sleep", "done"}]_vars
    /\ [](\A t \in Tasks :
            local[t].batch_id # None =>
                LET id == local[t].batch_id[1]
                IN  /\ Len(solved[id]) <= 1
                    /\ Len(chan[id]) <= 1
                    /\ \A k \in 1..Len(solved[id]) : solved[id][k] = <<Prompt(t), id[1]>>
                    /\ \A k \in 1..Len(chan[id]) :
                          /\ solved[id] # <<>>
                          /\ pending[id] = None
                          /\ chan[id][k] \in {SolvePrompt(Prompt(t), id[1], ok) : ok \in BOOLEAN})

\* C8 witness: a direct run_scheduler_once call has returned, and a query's
\* record was removed, solved once and its result sent.
C8_Witness ==
    \E t \in Tasks, id \in IdSpace :
        /\ pc[t] = "done"
        /\ call[t] = "run_scheduler_once"
        /\ chan[id] # <<>>
        /\ Len(solved[id]) = 1
        /\ pending[id] = None

\* C9: every record inserted by submit_user_query is removed exactly once:
\* whenever all scheduler queues are empty and no submit_user_query or
\* run_scheduler_once call is in progress, the pending table is empty.
C9_PendingEmptyWhenQuiescent ==
    (/\ AllQueuesEmpty
     /\ \A t \in Tasks : pc[t] \in {"idle", "done", "huq_check", "huq_await", "loop_sleep"})
    => \A id \in IdSpace : pending[id] = None

\* C21: when the receiver of a batch has been dropped, run_scheduler_once
\* still removes the pending record of the batch, runs solve_prompt for it
\* and reaches the send; the send stores nothing, changes neither the
\* pending table nor the scheduler, and the step returns to its caller as
\* after a successful send, so that the executor loop goes on to its sleep
\* and the next run_scheduler_once.
C21_DroppedReceiverIgnored ==
    [][\A t \in Tasks :
          LET id == local[t].batch[1].id
          IN  /\ (RunSchedulerOnce_Remove(t) /\ id \in rx_dropped /\ pending[id] # None) =>
                    /\ pending'[id] = None
                    /\ pc'[t] = "rso_solve"
              /\ ((\E ok \in BOOLEAN : RunSchedulerOnce_Solve(t, ok)) /\ id \in rx_dropped) =>
                    /\ Len(solved'[id]) = Len(solved[id]) + 1
                    /\ local'[t].result # None
                    /\ pc'[t] = "rso_send"
              /\ (RunSchedulerOnce_Send(t) /\ id \in rx_dropped) =>
                    /\ chan' = chan
                    /\ UNCHANGED <<schedVars, pending, solved>>
                    /\ pc'[t] = RsoReturn(call[t])
                    /\ call[t] = "run_scheduler_loop" => pc'[t] = "loop_sleep"]_vars

\* C21 witness: the executor loop has solved a batch whose receiver was
\* dropped, nothing was stored on its channel, and the loop has since
\* popped a later batch.
C21_Witness ==
    \E t \in Tasks, id \in IdSpace :
        /\ call[t] = "run_scheduler_loop"
        /\ id \in rx_dropped
        /\ solved[id] # <<>>
        /\ chan[id] = <<>>
        /\ pending[id] = None
        /\ pc[t] = "rso_remove"
        /\ local[t].batch[1].id # id

\* ------------------------------------------------------------------------
\* Receipt log claims (SpecLog)
\* ------------------------------------------------------------------------
Entry(k) == FromJsonLine(file[k])

AtRest == lock = 0 /\ \A a \in Appenders : apc[a] = "idle"

\* C4 (as stated): for every n >= 0, after open on a path that does not
\* exist and n successful appends through the handle, verify_log succeeds
\* and the chain_hash of the last entry is the handle's chain tail.
C4_VerifiesAfterAnyAppends ==
    (~tampered /\ AtRest)
    => /\ verify_log(file_exists, file) = Ok
       /\ last_hash = read_last_hash(file_exists, file)

\* C4 (amended): the same for every n >= 1; with n = 0 the path still does
\* not exist and verify_log returns an I/O error.
C4_VerifiesAfterAppends ==
    (~tampered /\ AtRest /\ Len(file) >= 1)
    => /\ verify_log(file_exists, file) = Ok
       /\ last_hash = Some(Entry(Len(file)).chain_hash)

\* C4 witness: two appends have returned and a verify_log call has succeeded.
C4_Witness ==
    /\ ~tampered /\ AtRest
    /\ Len(file) = 2
    /\ verify_ret = Some(Ok)
    /\ last_hash = Some(Entry(2).chain_hash)

\* C5: in the file written by appends through one handle, the first entry
\* has prev_hash null, every later entry's prev_hash is the chain_hash of
\* the entry before it, and each entry's chain_hash is the digest of its
\* other fields, prev_hash included, whatever the caller had put there.
C5_ChainLinks ==
    ~tampered =>
        \A k \in 1..Len(file) :
            /\ Entry(k).prev_hash = IF k = 1 THEN None ELSE Some(Entry(k - 1).chain_hash)
            /\ Entry(k).chain_hash = hash_receipt(Entry(k))
            /\ Entry(k).chain_hash \notin {<<>>, <<"z">>}

\* C5 witness: the file holds two entries, the second linked to the first.
C5_Witness ==
    /\ ~tampered
    /\ Len(file) = 2
    /\ Entry(1).prev_hash = None
    /\ Entry(2).prev_hash = Some(Entry(1).chain_hash)

\* C6: once one field of one entry of a log that verified has been changed
\* in place, verify_log fails with 'hash chain mismatch' or 'chain hash
\* invalid'.
C6_TamperDetected ==
    tampered => verify_log(file_exists, file) \in
                    {Err(Parse("hash chain mismatch")), Err(Parse("chain hash invalid"))}

\* C6 witness: the output_hash of the first of two entries was changed and a
\* verify_log call has failed on the recomputed chain hash.
C6_Witness ==
    /\ tampered
    /\ Len(file) = 2
    /\ Entry(1).chain_hash # hash_receipt(Entry(1))
    /\ Entry(1).chain_hash = hash_receipt([Entry(1) EXCEPT !.output_hash = <<"c">>])
    /\ Entry(1).output_hash = <<"x">>
    /\ verify_ret = Some(Err(Parse("chain hash invalid")))

\* C7: concurrent appends through one handle are serialized by the lock: at
\* most one appender is between reading the tail and updating it, no two
\* entries of the file share a prev_hash, and the file verifies at every
\* point of every interleaving.
C7_AppendsSerialized ==
    /\ Cardinality({a \in Appenders : apc[a] # "idle"}) <= 1
    /\ \A a \in Appenders : apc[a] # "idle" => lock = a
    /\ ~tampered =>
          /\ \A j, k \in 1..Len(file) : j # k => Entry(j).prev_hash # Entry(k).prev_hash
          /\ file_exists => verify_log(file_exists, file) = Ok

\* C7 witness: one appender holds the lock between its write and its tail
\* update, after the other appender's entry was written.
C7_Witness ==
    /\ ~tampered
    /\ Len(file) = 2
    /\ \E a \in Appenders : apc[a] = "update" /\ lock = a
    /\ last_hash = Some(Entry(1).chain_hash)

\* ------------------------------------------------------------------------
\* Scheduler claims (SpecQoS)
\* ------------------------------------------------------------------------
\* C10: QoSScheduler.submit of a batch whose class queue is at its WIP
\* ceiling fails with wip_limit_reached and leaves all three queues
\* unchanged; with max_background = 0 every Background submit fails.
C10_WipLimitRejects ==
    [][\A c \in TaskClass :
          /\ (QoSSubmitCall(c) /\ Len(queues[idx_for(c)]) >= max_wip[idx_for(c)])
                => (sched_ret' = Err("wip_limit_reached") /\ queues' = queues)
          /\ (QoSSubmitCall(c) /\ c = "Background" /\ max_wip[1] = 0)
                => sched_ret' = Err("wip_limit_reached")]_vars

\* C10 witness: a Background submit was rejected while the Background queue
\* sat at a ceiling of one or more batches.
C10_Witness ==
    /\ kind = "QoS"
    /\ sched_op[1] = "submit"
    /\ sched_op[2].class = "Background"
    /\ sched_ret = Err("wip_limit_reached")
    /\ max_wip[1] >= 1
    /\ Len(queues[1]) = max_wip[1]

\* ------------------------------------------------------------------------
\* Scheduler claims (SpecSched)
\* ------------------------------------------------------------------------
\* C11: in both schedulers, whatever the interleaving of submit and next
\* calls, two batches of one class are returned in the order they were
\* submitted: each class queue holds its batches in submission order, and
\* a batch that next returns was submitted before every batch of its class
\* that is still queued.
C11_FifoWithinClass ==
    /\ [](\A c \in TaskClass :
            LET q == queues[idx_for(c)]
            IN  \A k \in 1..Len(q) :
                    /\ q[k].class = c
                    /\ k > 1 => q[k - 1].id[2] < q[k].id[2])
    /\ [][((InMemoryNextCall \/ QoSNextCall) /\ sched_ret' # None)
            => LET b == sched_ret'[1]
                   left == queues'[idx_for(b.class)]
               IN  /\ b = Head(queues[idx_for(b.class)])
                   /\ \A k \in 1..Len(left) : b.id[2] < left[k].id[2]]_vars

\* C11 witness: a QoSScheduler has returned the second Background batch
\* while the third, submitted after the first was returned, is still queued.
C11_Witness ==
    /\ kind = "QoS"
    /\ sched_op = <<"next">>
    /\ sched_ret = Some(GoniBatch("Background", 2))
    /\ queues[1] = <<GoniBatch("Background", 3)>>

\* ------------------------------------------------------------------------
\* Selector claims (SpecSelect)
\* ------------------------------------------------------------------------
\* The call whose result sel_ret holds.
Returned == sel_pc = "idle" /\ sel_ret # None

\* C12: for every candidate list, gamma and budget B, the selection that
\* select returns has total_tokens <= B.
C12_TotalWithinBudget ==
    Returned => sel_ret[1].total_tokens <= sel_args[1].max_tokens

\* C12 witness: a call has returned two candidates that fill the budget
\* exactly while a third candidate did not fit.
C12_Witness ==
    /\ Returned
    /\ Len(sel_ret[1].indices) = 2
    /\ sel_ret[1].total_tokens = sel_args[1].max_tokens
    /\ \E k \in 1..Len(pool) : pool[k].tokens > sel_args[1].max_tokens

\* C13: a call of select with the candidate list, gamma and budget of an
\* earlier call returns the same indices in the same order and the same
\* total_tokens, whatever calls were made in between.
C13_SameInputsSameSelection ==
    (Returned /\ sel_seen # None /\ sel_seen[1].args = sel_args[1])
    => sel_ret[1] = sel_seen[1].ret

\* C13 witness: the second call after a held, non-empty selection has
\* returned, with the same arguments, the same selection, while the locals
\* of the call show that the greedy loop ran again.
C13_Witness ==
    /\ Returned
    /\ sel_seen # None
    /\ sel_seen[1].later = 2
    /\ sel_seen[1].args = sel_args[1]
    /\ Len(sel_seen[1].ret.indices) = 2
    /\ sel_ret[1] = sel_seen[1].ret
    /\ sel_local[1].selected_indices = sel_ret[1].indices

\* C14: in every selection returned by select the indices are pairwise
\* distinct, each index is less than the number of candidates, and
\* total_tokens is the sum of the token counts of the candidates at those
\* indices.
C14_IndicesDistinctInRange ==
    Returned =>
        LET indices == sel_ret[1].indices
            candidates == sel_args[1].candidates
        IN  /\ \A j, k \in 1..Len(indices) : j # k => indices[j] # indices[k]
            /\ \A k \in 1..Len(indices) : indices[k] \in 0..(Len(candidates) - 1)
            /\ sel_ret[1].total_tokens
                 = SumSeq([k \in 1..Len(indices) |-> candidates[indices[k] + 1].tokens])

\* C14 witness: a call has returned three indices, not in index order.
C14_Witness ==
    /\ Returned
    /\ Len(sel_ret[1].indices) = 3
    /\ sel_ret[1].indices[1] > sel_ret[1].indices[2]
    /\ sel_ret[1].total_tokens > 0

\* C15: select returns the empty selection with total_tokens = 0 when the
\* candidate list is empty, when the budget is 0, and when every candidate's
\* token count exceeds the budget.
C15_EmptySelection ==
    (/\ Returned
     /\ \/ sel_args[1].candidates = <<>>
        \/ sel_args[1].max_tokens = 0
        \/ \A k \in 1..Len(sel_args[1].candidates) :
              sel_args[1].candidates[k].tokens > sel_args[1].max_tokens)
    => sel_ret[1] = ContextSelection(<<>>, 0)

\* C15 witness: the greedy loop has run over a non-empty list with a budget
\* of one token that no candidate fits, and the empty selection was returned.
C15_Witness ==
    /\ Returned
    /\ sel_args[1].max_tokens = 1
    /\ Len(sel_args[1].candidates) = 2
    /\ \A k \in 1..2 : sel_args[1].candidates[k].tokens > 1
    /\ sel_local # None
    /\ sel_local[1].remaining_tokens = 1
    /\ sel_local[1].selected_indices = <<>>
    /\ sel_ret[1] = ContextSelection(<<>>, 0)

\* ------------------------------------------------------------------------
\* Policy claims (SpecPolicy)
\* ------------------------------------------------------------------------
\* C16: evaluate_tool returns Deny("scope_not_allowed") whenever the token's
\* scopes contain neither the exact tool id nor "*", and then the budget
\* ledger (bytes, tokens and tool-call counters) is unchanged.
C16_ScopeDeniedLeavesLedger ==
    [][LET token == pol_op'[2]
           tool_id == pol_op'[3]
       IN  (/\ pol_op'[1] = "evaluate_tool"
            /\ EvaluateToolCall(token, tool_id)
            /\ \A k \in 1..Len(token.scopes) : token.scopes[k] \notin {tool_id, "*"})
           => (/\ pol_ret' = Some(Deny("scope_not_allowed"))
               /\ ledger' = ledger)]_vars

\* C16 witness: the spec's example, a token scoped to demo.echo used for
\* other.tool against a ledger of one tool call.
C16_Witness ==
    /\ pol_op = <<"evaluate_tool", CapabilityToken(<<"U1">>, <<"demo.echo">>, None), "other.tool">>
    /\ pol_ret = Some(Deny("scope_not_allowed"))
    /\ ledger = BudgetLedger(1, 1, 1)

\* C17 (as stated): for a tool in scope, evaluate_tool returns
\* Deny("tool_call_budget_exhausted") exactly when debiting one tool call
\* would leave tool_calls_remaining <= 0, and otherwise returns Allow with
\* tool_calls_remaining decreased by one.
C17_DeniedWhenDebitLeavesNonPositive ==
    [][LET token == pol_op'[2]
           tool_id == pol_op'[3]
       IN  (/\ pol_op'[1] = "evaluate_tool"
            /\ EvaluateToolCall(token, tool_id)
            /\ InScope(token.scopes, tool_id))
           => IF ledger.tool_calls_remaining - 1 <= 0
              THEN pol_ret' = Some(Deny("tool_call_budget_exhausted"))
              ELSE /\ pol_ret' = Some(Allow)
                   /\ ledger'.tool_calls_remaining = ledger.tool_calls_remaining - 1]_vars

\* C17 (amended): for a tool in scope, evaluate_tool returns
\* Deny("tool_call_budget_exhausted"), leaving the ledger as it is, exactly
\* when tool_calls_remaining is already <= 0 (the debit would make it
\* negative), and otherwise returns Allow with tool_calls_remaining
\* decreased by one and the other counters unchanged.
C17_DeniedWhenNothingRemains ==
    [][LET token == pol_op'[2]
           tool_id == pol_op'[3]
       IN  (/\ pol_op'[1] = "evaluate_tool"
            /\ EvaluateToolCall(token, tool_id)
            /\ InScope(token.scopes, tool_id))
           => IF ledger.tool_calls_remaining <= 0
              THEN /\ pol_ret' = Some(Deny("tool_call_budget_exhausted"))
                   /\ ledger' = ledger
              ELSE /\ pol_ret' = Some(Allow)
                   /\ ledger' = [ledger EXCEPT !.tool_calls_remaining = @ - 1]]_vars

\* C17 witness: the last tool call of the ledger was allowed through the
\* wildcard scope and left the counter at zero.
C17_Witness ==
    /\ pol_op[1] = "evaluate_tool"
    /\ pol_op[2].scopes = <<"*">>
    /\ pol_op[3] = "other.tool"
    /\ pol_ret = Some(Allow)
    /\ ledger = BudgetLedger(1, 1, 0)

\* C18: evaluate_egress returns Deny("egress_denied") for every host when
\* the mode is deny, whatever the allowlist holds; in any other mode it
\* returns Allow if and only if the host equals some allowlist entry, and
\* Deny("host_not_allowed") otherwise.
C18_EgressDecision ==
    [][LET host == pol_op'[2]
       IN  (pol_op'[1] = "evaluate_egress" /\ EvaluateEgressCall(host))
           => pol_ret' = Some(IF policy.mode = "deny" THEN Deny("egress_denied")
                              ELSE IF host \in {policy.allowlist[k] : k \in 1..Len(policy.allowlist)}
                                   THEN Allow
                                   ELSE Deny("host_not_allowed"))]_vars

\* C18 witness: a policy in mode deny that lists a.com has denied a.com.
C18_Witness ==
    /\ policy = Policy("deny", <<"a.com">>)
    /\ pol_op = <<"evaluate_egress", "a.com">>
    /\ pol_ret = Some(Deny("egress_denied"))

\* ------------------------------------------------------------------------
\* Receipt writer claims (SpecGate)
\* ------------------------------------------------------------------------
\* The lines of the log that carry a receipt id.
LinesOf(receipt_id) == {k \in 1..Len(file) : Entry(k).receipt_id = receipt_id}

\* C19: every execute call and every fetch request appends one receipt that
\* records its policy decision ("allow" or "deny:<reason>") before its
\* outcome is produced: once a tool result was returned, an egress request
\* was forwarded upstream or a fetch was answered, the log holds exactly one
\* entry with the request's receipt id, and that entry carries the decision.
C19_ReceiptBeforeOutcome ==
    \A h \in Requests :
        gpc[h] \in {"forwarded", "done"} =>
            /\ Cardinality(LinesOf(greq[h].receipt_id[1])) = 1
            /\ \A k \in LinesOf(greq[h].receipt_id[1]) :
                  Entry(k).policy_decision = DecisionString(greq[h].decision[1])

\* ------------------------------------------------------------------------
\* Receipt log claims (SpecReopen)
\* ------------------------------------------------------------------------
\* C20: ReceiptLog::open sets the chain tail to the chain_hash of the last
\* entry of the file, or to null when the file does not exist; hence a log
\* that verifies still verifies after appends through a reopened handle:
\* the first entry appended through it has the old last entry's chain_hash
\* as its prev_hash.
C20_ReopenRecoversTail ==
    /\ [][Reopen => last_hash' = IF file_exists /\ Len(file) >= 1
                                 THEN Some(Entry(Len(file)).chain_hash)
                                 ELSE None]_vars
    /\ [](~tampered =>
            /\ file_exists => verify_log(file_exists, file) = Ok
            /\ (opened_at >= 1 /\ Len(file) > opened_at)
                  => Entry(opened_at + 1).prev_hash = Some(Entry(opened_at).chain_hash))

\* C20 witness: the handle was reopened on a log of one entry, a second
\* entry was appended through it, and verify_log has succeeded.
C20_Witness ==
    /\ ~tampered
    /\ AtRest
    /\ opened_at = 1
    /\ Len(file) = 2
    /\ Entry(2).prev_hash = Some(Entry(1).chain_hash)
    /\ last_hash = Some(Entry(2).chain_hash)
    /\ verify_ret = Some(Ok)

\* ------------------------------------------------------------------------
\* Candidate view claims (SpecChunks)
\* ------------------------------------------------------------------------
\* The call of record_batch_to_candidate_chunks has returned Ok.
ChunksReturned ==
    /\ lib_call = "record_batch_to_candidate_chunks"
    /\ lib_ret # None
    /\ lib_ret[1][1] = "Ok"

\* The array of the batch's first column of that name.
ColumnOf(batch, name) == At(batch.columns, index_of(batch.schema, name)[1])

\* The rows (0-based, in order) that have a non-null id and a positive
\* token count.
RowsKept(batch) ==
    SelectSeq([r \in 1..batch.num_rows |-> r - 1],
              LAMBDA r : /\ At(ColumnOf(batch, "id").values, r) # None
                         /\ At(ColumnOf(batch, "tokens").values, r) > 0)

\* C24: the chunks returned by record_batch_to_candidate_chunks are, in row
\* order, those of the rows with a non-null id and a positive token count,
\* whether the tokens column is Int32 or UInt32; every chunk has a positive
\* token count and an embedding as long as the query embedding.
C24_ChunksFromValidRows ==
    ChunksReturned =>
        LET batch == lib_args.batch
            chunks == lib_ret[1][2]
            kept == RowsKept(batch)
        IN  /\ Len(chunks) = Len(kept)
            /\ \A k \in 1..Len(chunks) :
                  /\ k <= Len(kept)
                  /\ Some(chunks[k].id) = At(ColumnOf(batch, "id").values, kept[k])
                  /\ chunks[k].tokens = At(ColumnOf(batch, "tokens").values, kept[k])
            /\ \A k \in 1..Len(chunks) :
                  /\ chunks[k].tokens > 0
                  /\ Len(chunks[k].embedding) = Len(lib_args.query_embedding)

\* What the batch must satisfy, by name of the error that reports the
\* violation.
ColumnsExist(batch) ==
    \A name \in {"id", "tokens", "embedding"} : index_of(batch.schema, name) # None

ColumnTypesValid(batch) ==
    /\ ColumnOf(batch, "id").data_type = Utf8
    /\ ColumnOf(batch, "tokens").data_type \in {Int32, UInt32}
    /\ ColumnOf(batch, "embedding").data_type.kind = "FixedSizeList"
    /\ ColumnOf(batch, "embedding").data_type.item = "Float32"

EmbeddingDimMatches(batch, query_embedding) ==
    ColumnOf(batch, "embedding").data_type.kind = "FixedSizeList"
        => ColumnOf(batch, "embedding").data_type.len = Len(query_embedding)

\* C25: record_batch_to_candidate_chunks returns Ok only for a batch whose
\* id, tokens and embedding columns exist, whose id column is Utf8, whose
\* tokens column is Int32 or UInt32 and whose embedding column is a
\* fixed-size list of f32 of the query's length; for any other batch,
\* whatever its rows, it returns an error that names a violation the batch
\* has: MissingColumn (a column is missing), InvalidColumnType (a column
\* has a wrong type) or EmbeddingDimMismatch (the inner length differs).
C25_ViolationsReported ==
    (lib_call = "record_batch_to_candidate_chunks" /\ lib_ret # None) =>
        LET batch == lib_args.batch
            ret == lib_ret[1]
        IN  IF ~ColumnsExist(batch)
            THEN ret[1] = "Err" /\ ret[2][1] = "MissingColumn"
            ELSE LET bad_type == ~ColumnTypesValid(batch)
                     bad_dim == ~EmbeddingDimMatches(batch, lib_args.query_embedding)
                 IN  IF bad_type \/ bad_dim
                     THEN /\ ret[1] = "Err"
                          /\ \/ bad_type /\ ret[2][1] = "InvalidColumnType"
                             \/ bad_dim /\ ret[2][1] = "EmbeddingDimMismatch"
                     ELSE ret[1] = "Ok"

\* ------------------------------------------------------------------------
\* Embedding claims (SpecEmbed)
\* ------------------------------------------------------------------------
\* C26: for every text and every dimension d >= 1, two calls of embed
\* return the same vector; the vector has Euclidean norm 1 unless the text
\* has no token, and it is the zero vector only when the text has no token.
C26_DeterministicUnitVector ==
    (lib_call = "embed" /\ lib_ret # None) =>
        /\ lib_prev # None => lib_prev = lib_ret
        /\ lib_ret[1] = embed(lib_args.text, lib_args.dim)
        /\ lib_args.text # <<>> => HasUnitNorm(lib_ret[1])
        /\ IsZeroVector(lib_ret[1]) => lib_args.text = <<>>

\* ------------------------------------------------------------------------
\* solve_prompt claims (SpecSolve)
\* ------------------------------------------------------------------------
\* C22: in solve_prompt, when rag_candidates fails and the demo flag is
\* off, the engine is called with the prompt unchanged and the empty
\* selection; when the candidate view cannot be built, the selector gets
\* the empty candidate list and the prompt stays unchanged; when generate
\* fails, its error is what solve_prompt returns and what is delivered on
\* the caller's handle.
C22_SolveFallbacks ==
    /\ [](sp_local # None =>
            LET l == sp_local[1]
            IN  /\ (l.rag_batch = Some("Err") /\ l.demo = Some(FALSE) /\ l.req # None) =>
                      /\ l.req[1].prompt = l.prompt
                      /\ l.req[1].context = ContextSelection(<<>>, 0)
                /\ l.built = Some("Err") =>
                      /\ l.candidates = Some(<<>>)
                      /\ l.augmented_prompt # None => l.augmented_prompt[1] = l.prompt
                      /\ l.req # None => l.req[1].prompt = l.prompt
                /\ (l.generated # None /\ l.generated[1][1] = "Err") =>
                      /\ sp_ret = l.generated
                      /\ sp_pc = "done" => sp_handle = l.generated)
    /\ [][/\ SolveGenerated(FALSE) => sp_ret' = Some(<<"Err", "LlmError">>)
          /\ SolveDelivered => sp_handle' = sp_ret]_vars

\* C22 witness: rag_candidates failed with the demo flag off, the engine
\* got the prompt unchanged with the empty selection and failed, and the
\* error has been delivered.
C22_Witness ==
    /\ sp_pc = "done"
    /\ sp_local[1].rag_batch = Some("Err")
    /\ sp_local[1].demo = Some(FALSE)
    /\ sp_local[1].req[1].prompt = sp_local[1].prompt
    /\ sp_local[1].req[1].context = ContextSelection(<<>>, 0)
    /\ sp_handle = Some(<<"Err", "LlmError">>)

\* ------------------------------------------------------------------------
\* Schema claims (SpecSchema)
\* ------------------------------------------------------------------------
HasLargeUtf8(fields) == \E i \in 1..Len(fields) : fields[i].data_type = LargeUtf8

\* C23: no declared table of the Control or Execution plane has a
\* LargeUtf8 column; the constructor `new` of such a table returns the
\* error 'TXT axiom violated' for every batch whose schema has a LargeUtf8
\* column and accepts every other batch, and the constructors of Knowledge
\* and Context tables accept batches with LargeUtf8 columns.
C23_TxtAxiom ==
    /\ \A t \in Tables :
          /\ guard_txt_large_utf8(Registry[t])
          /\ Registry[t].plane \in Plane
          /\ Registry[t].plane \in {"Control", "Execution"} => ~HasLargeUtf8(schema(Registry[t]))
    /\ (lib_call = "new" /\ lib_ret # None) =>
          LET table == lib_args.table
              inner == lib_args.inner
              ret == lib_ret[1]
          IN  IF table.plane \in {"Control", "Execution"} /\ HasLargeUtf8(inner.schema)
              THEN ret[1] = "Err" /\ ret[2][1] = "TXT axiom violated"
              ELSE ret = <<"Ok", [inner |-> inner]>>

\* C23 witness: `new` of an Execution table has refused a batch with a
\* LargeUtf8 column.
C23_Witness ==
    /\ lib_call = "new"
    /\ lib_ret # None
    /\ lib_args.table.plane = "Execution"
    /\ HasLargeUtf8(lib_args.inner.schema)
    /\ lib_ret[1][1] = "Err"

\* ------------------------------------------------------------------------
\* Manifest claims (SpecManifest)
\* ------------------------------------------------------------------------
\* C27: parse_yaml accepts every manifest that has the string `id`,
\* whichever of version, triggers, permissions, budgets, tools,
\* ui_surfaces, identity_requirements and remote_access it omits, and each
\* omitted section has its default in the result: none for version, the
\* empty list for the lists, false for remote_access.
C27_OptionalSectionsDefault ==
    (lib_call = "parse_yaml" /\ lib_ret # None /\ lib_args.yaml["id"] # None) =>
        LET yaml == lib_args.yaml
            ret == lib_ret[1]
        IN  /\ ret[1] = "Ok"
            /\ ret[2].id = yaml["id"][1]
            /\ yaml["version"] = None => ret[2].version = None
            /\ \A key \in {"triggers", "tools", "ui_surfaces", "identity_requirements"} :
                  yaml[key] = None => ret[2][key] = <<>>
            /\ yaml["remote_access"] = None => ret[2].remote_access = FALSE
            /\ yaml["budgets"] = None => ret[2].budgets = DefaultBudgets

\* ------------------------------------------------------------------------
\* Scheduler claims on next (SpecInMemory, SpecQoS, SpecSched)
\* ------------------------------------------------------------------------
\* weight_c * length_c of the class queue i.
Score(i) == weights[i] * Len(queues[i])

\* C28: a next of an InMemoryScheduler with a non-empty queue pops the head
\* of the non-empty class queue with the greatest score weight * length,
\* the earliest class in the order Interactive, Background, Maintenance on
\* equal scores, and leaves the other two queues as they were.
C28_GreatestScoreEarliestClass ==
    [][(InMemoryNextCall /\ ~AllQueuesEmpty)
        => \E i \in 0..2 :
              /\ queues[i] # <<>>
              /\ \A k \in 0..2 : queues[k] # <<>> => Score(k) <= Score(i)
              /\ \A k \in 0..(i - 1) : queues[k] # <<>> => Score(k) < Score(i)
              /\ sched_ret' = Some(Head(queues[i]))
              /\ queues'[i] = Tail(queues[i])
              /\ \A k \in 0..2 : k # i => queues'[k] = queues[k]]_vars

\* C28 witness: one Interactive batch (score 1000) and 100 Background
\* batches (score 1000) were queued, and next returned the Interactive one.
C28_Witness ==
    /\ kind = "InMemory"
    /\ sched_op = <<"next">>
    /\ sched_ret # None
    /\ sched_ret[1].class = "Interactive"
    /\ queues[0] = <<>>
    /\ Len(queues[1]) = 100

\* C29: a next of a QoSScheduler returns no Background batch while an
\* Interactive batch is queued, and no Maintenance batch while an
\* Interactive or a Background batch is queued.
C29_StrictClassOrder ==
    [][(QoSNextCall /\ sched_ret' # None)
        => LET class == sched_ret'[1].class
           IN  /\ class = "Background" => queues[0] = <<>>
               /\ class = "Maintenance" => queues[0] = <<>> /\ queues[1] = <<>>]_vars

\* C29 witness: next returned a Maintenance batch with no Interactive and no
\* Background batch queued, after both of those classes had been submitted.
C29_Witness ==
    /\ kind = "QoS"
    /\ sched_op = <<"next">>
    /\ sched_ret # None
    /\ sched_ret[1].class = "Maintenance"
    /\ queues[0] = <<>>
    /\ queues[1] = <<>>
    /\ issued["Interactive"] > 0
    /\ issued["Background"] > 0

\* The next of the scheduler that was constructed.
NextCallOfKind == IF kind = "InMemory" THEN InMemoryNextCall ELSE QoSNextCall

\* C30: for both schedulers a next made with all three queues empty
\* returns None in that same call, needing no later submit, and leaves the
\* queues and the limits as they were.
C30_EmptyNextReturnsNone ==
    /\ [](AllQueuesEmpty => ENABLED NextCallOfKind)
    /\ [][(NextCallOfKind /\ AllQueuesEmpty)
            => /\ sched_ret' = None
               /\ UNCHANGED <<queues, max_wip, kind, issued>>]_vars

\* C30 witness: a scheduler that had batches submitted and drained answered
\* a next with None.
C30_Witness ==
    /\ sched_op = <<"next">>
    /\ sched_ret = None
    /\ AllQueuesEmpty
    /\ \E c \in TaskClass : issued[c] > 0

\* ------------------------------------------------------------------------
\* Greedy order of select (SpecSelect)
\* ------------------------------------------------------------------------
\* Candidate j is unselected and its token count fits the remaining budget.
Qualifies(j) ==
    /\ ~At(sel_local[1].selected_mask, j)
    /\ At(sel_args[1].candidates, j).tokens <= sel_local[1].remaining_tokens

\* The marginal gain of candidate j in the round about to run.
RoundGain(j) == Gain(sel_args[1].candidates, sel_local[1].coverage, gamma, j)

\* C31: each greedy round of select picks, among the unselected candidates
\* that fit the remaining budget, one of maximal marginal gain, the lowest
\* index among equal gains, and only on a strictly positive gain; the loop
\* ends when no candidate qualifies or the remaining budget is 0, and a
\* round never runs on a budget of 0.
C31_GreedyPickingOrder ==
    /\ [](sel_pc = "loop" => sel_local[1].remaining_tokens > 0)
    /\ [][sel_pc = "loop"
            => LET n == Len(sel_args[1].candidates)
                   fit == {j \in 0..(n - 1) : Qualifies(j)}
                   gainful == {j \in fit : RoundGain(j) > 0}
               IN  IF gainful = {}
                   THEN /\ sel_pc' = "sum"
                        /\ sel_local' = sel_local
                   ELSE \E j \in gainful :
                           /\ \A k \in fit : RoundGain(k) <= RoundGain(j)
                           /\ \A k \in fit : k < j => RoundGain(k) < RoundGain(j)
                           /\ sel_local'[1].selected_indices
                                 = Append(sel_local[1].selected_indices, j)
                           /\ sel_pc' = IF sel_local'[1].remaining_tokens = 0
                                        THEN "sum" ELSE "loop"]_vars

\* C31 witness: the first two candidates are the same chunk, so their gains
\* were equal; index 0 was picked, and the loop ended with budget left
\* because the other candidates had no positive gain.
C31_Witness ==
    /\ sel_pc = "sum"
    /\ Len(sel_args[1].candidates) >= 2
    /\ sel_args[1].candidates[1] = sel_args[1].candidates[2]
    /\ sel_local[1].selected_indices = <<0>>
    /\ sel_local[1].remaining_tokens > 0
    /\ ~sel_local[1].selected_mask[2]

\* ------------------------------------------------------------------------
\* Lock claims (SpecLocks)
\* ------------------------------------------------------------------------
\* C32: while solve_prompt runs inside run_scheduler_once the task holds
\* neither the pending mutex nor the scheduler mutex, so a submit_user_query
\* that waits for either lock gets it unless a third task holds it; and a
\* task never waits for a mutex whose guard it holds itself, in particular
\* not handle_user_query on the pending lock when it runs the inline step.
C32_NoLockHeldWhileSolving ==
    /\ \A t \in Tasks :
            pc[t] \in {"rso_solve", "rso_send"} => local[t].guards = {}
    /\ \A t \in Tasks :
            pc[t] \in DOMAIN LockPoints => LockPoints[pc[t]].mutex \notin local[t].guards
    /\ \A t, u \in Tasks :
            (/\ pc[t] = "rso_solve"
             /\ pc[u] \in {"suq_lock", "suq_sched_lock"}
             /\ Holders(LockPoints[pc[u]].mutex) \subseteq {t})
            => ENABLED MutexLock(u)

\* C32 witness: a handle_user_query task is in solve_prompt of its inline
\* step while another task holds the pending guard inside submit_user_query,
\* a guard it can only have taken after the solving task dropped its own.
C32_Witness ==
    \E t, u \in Tasks :
        /\ call[t] = "handle_user_query"
        /\ pc[t] = "rso_solve"
        /\ call[u] = "submit_user_query"
        /\ pc[u] = "suq_insert"
        /\ "pending" \in local[u].guards

\* ------------------------------------------------------------------------
\* Hand-off claims (SpecHandoff)
\* ------------------------------------------------------------------------
\* The positions of the record where a submit of batch b succeeded, and
\* those where next returned b.
Accepted(b) == {k \in 1..Len(trace) : trace[k] = [op |-> "submit", batch |-> Some(b), ok |-> TRUE]}
Handed(b) == {k \in 1..Len(trace) : trace[k] = [op |-> "next", batch |-> Some(b), ok |-> TRUE]}
Queued(b) == {<<i, k>> \in (0..2) \X (1..MaxCalls) : k <= Len(queues[i]) /\ queues[i][k] = b}

\* C33: for both schedulers and any interleaving of submit and next calls,
\* a batch whose submit succeeded is either still queued, once, or has been
\* returned by next, once, and never both; and next returns only batches
\* whose submit succeeded earlier.
C33_EachBatchHandedOnce ==
    \A c \in TaskClass, n \in 1..MaxCalls :
        LET b == GoniBatch(c, n)
        IN  /\ Cardinality(Handed(b)) <= 1
            /\ Handed(b) # {} => \E j \in Accepted(b) : \A k \in Handed(b) : j < k
            /\ Accepted(b) # {} => Cardinality(Handed(b)) + Cardinality(Queued(b)) = 1
            /\ Accepted(b) = {} => Queued(b) = {}

\* C33 witness: on a QoSScheduler a submit was rejected, and both batches
\* that were accepted have been returned by next.
C33_Witness ==
    /\ kind = "QoS"
    /\ \E k \in 1..Len(trace) : trace[k].op = "submit" /\ ~trace[k].ok
    /\ Cardinality({k \in 1..Len(trace) : trace[k].op = "next" /\ trace[k].ok}) = 2
    /\ Cardinality({k \in 1..Len(trace) : trace[k].op = "submit" /\ trace[k].ok}) = 2
    /\ AllQueuesEmpty

\* ------------------------------------------------------------------------
\* Orchestrator claims on concurrent executors (Spec)
\* ------------------------------------------------------------------------
\* The batch id was generated by a call of submit_user_query.
CreatedBySubmitUserQuery(id) == \E u \in Tasks : local[u].batch_id = Some(id)

\* C34: the pending record is inserted before the batch is enqueued, so
\* whatever the interleaving with the executors, a batch of
\* submit_user_query that is queued, or that the scheduler has yielded to a
\* run_scheduler_once that has not looked it up yet, has its pending record:
\* the lookup of line 114 never comes back empty for such a batch.
C34_RecordPresentWhenYielded ==
    /\ \A i \in 0..2 : \A k \in 1..Len(queues[i]) :
            CreatedBySubmitUserQuery(queues[i][k].id) => pending[queues[i][k].id] # None
    /\ \A t \in Tasks :
            (pc[t] = "rso_remove" /\ CreatedBySubmitUserQuery(local[t].batch[1].id))
            => pending[local[t].batch[1].id] # None

\* C34 witness: the executor loop has taken the record of a batch that
\* another task created with submit_user_query, and is solving it.
C34_Witness ==
    \E t, u \in Tasks :
        /\ call[t] = "run_scheduler_loop"
        /\ pc[t] = "rso_solve"
        /\ call[u] = "submit_user_query"
        /\ local[u].batch_id = Some(local[t].batch[1].id)
        /\ local[t].req # None

\* C35: with several tasks in run_scheduler_once at the same time (the
\* executor loop, inline steps of handle_user_query, direct callers),
\* solve_prompt runs at most once per batch id and at most one result is
\* sent on each delivery handle.
C35_AtMostOneSolvePerBatch ==
    \A id \in IdSpace : Len(solved[id]) <= 1 /\ Len(chan[id]) <= 1

\* C35 witness: two handle_user_query tasks are inside their inline
\* run_scheduler_once together, each with the record of a different batch:
\* one has solved its batch and is about to send, the other is solving.
C35_Witness ==
    \E t, u \in Tasks :
        /\ call[t] = "handle_user_query"
        /\ call[u] = "handle_user_query"
        /\ pc[t] = "rso_send"
        /\ pc[u] = "rso_solve"
        /\ local[t].batch[1].id # local[u].batch[1].id
        /\ Len(solved[local[t].batch[1].id]) = 1

\* ------------------------------------------------------------------------
\* Delivery under a fair executor (SpecFair)
\* ------------------------------------------------------------------------
\* The scheduler accepted the batch of id that a task's submit_user_query
\* created.
SubmitSucceeded(id) ==
    \E u \in Tasks :
        /\ local[u].batch_id = Some(id)
        /\ pc[u] \notin {"idle", "suq_submit"}
        /\ local[u].ret # Some(Err("wip_limit_reached"))

\* A result was sent on the handle of id; a handle whose receiver has been
\* dropped takes no result.
ResultSent(id) == chan[id] # <<>> \/ id \in rx_dropped

C37_QueuesWithinCeilings ==
    /\ [](Len(queues[1]) <= max_wip[1] /\ Len(queues[2]) <= max_wip[2])
    /\ [][QoSSubmitCall("Interactive") => sched_ret' = Ok]_vars

\* C37 witness: the Background queue is at a ceiling of 2 and a third
\* Interactive batch has just been accepted.
C37_Witness ==
    /\ kind = "QoS"
    /\ max_wip[1] = 2
    /\ Len(queues[1]) = 2
    /\ sched_op = <<"submit", GoniBatch("Interactive", 3)>>
    /\ sched_ret = Ok
    /\ Len(queues[0]) = 3

\* ------------------------------------------------------------------------
\* Budget claims (SpecBudget)
\* ------------------------------------------------------------------------
\* The ledger as BudgetLedger::new made it, and the evaluate_tool calls so
\* far that returned Allow.
CreatedLedger == trace[1].ledger
Allowed == {k \in 2..Len(trace) : trace[k].decision = Some(Allow)}

\* C38: for a ledger created with tool_calls_remaining = k >= 0, over any
\* sequence of evaluate_tool calls the counter never becomes negative and
\* at most k calls are allowed; a call denied with
\* tool_call_budget_exhausted leaves the ledger unchanged; and whatever k
\* is, evaluate_tool never changes bytes_remaining or tokens_remaining.
C38_BudgetNeverOverdrawn ==
    /\ [](CreatedLedger.tool_calls_remaining >= 0
            => /\ ledger.tool_calls_remaining >= 0
               /\ Cardinality(Allowed) <= CreatedLedger.tool_calls_remaining)
    /\ [](/\ ledger.bytes_remaining = CreatedLedger.bytes_remaining
          /\ ledger.tokens_remaining = CreatedLedger.tokens_remaining)
    /\ [][pol_ret' = Some(Deny("tool_call_budget_exhausted")) => ledger' = ledger]_vars

\* C38 witness: a ledger created with two tool calls has allowed two calls
\* and then denied a third for its exhausted budget.
C38_Witness ==
    /\ CreatedLedger.tool_calls_remaining = 2
    /\ Cardinality(Allowed) = 2
    /\ pol_ret = Some(Deny("tool_call_budget_exhausted"))
    /\ ledger.tool_calls_remaining = 0

\* ------------------------------------------------------------------------
\* Receipt log claims (SpecTorn)
\* ------------------------------------------------------------------------
\* An append call returns an error: it leaves the write step without going
\* on to the tail update.
AppendFails == \E a \in Appenders : apc[a] = "write" /\ apc'[a] = "idle"

\* C39: an append that fails (open, write or serialization error) returns
\* the error with the in-memory chain tail unchanged, so that, with no
\* append under way, the tail is the chain hash of the last entry of the
\* file and the log, once it exists, verifies.
C39_FailedAppendKeepsLogValid ==
    /\ [][AppendFails => last_hash' = last_hash]_vars
    /\ []((AtRest /\ file_exists /\ ~tampered)
            => /\ verify_log(file_exists, file) = Ok
               /\ last_hash = read_last_hash(file_exists, file))

\* ------------------------------------------------------------------------
\* Receipt log claims (SpecRemove)
\* ------------------------------------------------------------------------
\* The lines that were removed, and how many the log held before.
Gone == trace[1].gone
Before == trace[1].of

\* The removed lines are the last ones of the log.
TrailingGone == Gone = (Before - Cardinality(Gone) + 1)..Before

\* C40 (as stated): verify_log succeeds on what is left of a verifying log
\* when its trailing entries, few or all, are removed, and fails when the
\* first entry or an entry that has a successor is removed.
C40_FirstOrInnerRemovalDetected ==
    tampered =>
        /\ TrailingGone => verify_log(file_exists, file) = Ok
        /\ \A k \in 1..Before :
              (Gone = {k} /\ (k = 1 \/ k < Before)) => verify_log(file_exists, file) # Ok

\* C40 (amended): the same, with a failure only for an entry that has a
\* successor: the first entry of a log of one entry is a trailing entry and
\* its removal leaves the empty file, which verifies.
C40_InnerRemovalDetected ==
    tampered =>
        /\ TrailingGone => verify_log(file_exists, file) = Ok
        /\ \A k \in 1..Before :
              (Gone = {k} /\ k < Before)
                 => verify_log(file_exists, file) = Err(Parse("hash chain mismatch"))

\* C40 witness: the second of three entries was removed and a verify_log
\* call has failed on the broken link.
C40_Witness ==
    /\ tampered
    /\ Before = 3
    /\ Gone = {2}
    /\ Len(file) = 2
    /\ verify_ret = Some(Err(Parse("hash chain mismatch")))

====
